---- MODULE Spec2Model ----
(***************************************************************************)
(* Rotation/refresh scheduler (rotation.Manager), the renderer's page      *)
(* list, the screen-saver task and the shutdown path of i2c-displayd.      *)
(*                                                                         *)
(* Tasks: "main" (the goroutine of func main, which also runs              *)
(* Manager.Start and its synchronous initial render), "loop" (Manager.run),*)
(* "ss" (the screen-saver goroutine) and "aux" (any other client           *)
(* goroutine holding the *Manager: a second Stop, a status query).         *)
(*                                                                         *)
(* Blocking calls (Collect, RenderPage, SetBrightness, Close) are split    *)
(* into a begin and a return step; a call that never returns is a          *)
(* behaviour in which the return step is never taken.  Sections under      *)
(* Manager.mu are single steps.                                            *)
(*                                                                         *)
(* Time: only the wait of Stop is measured, in seconds.  Computation takes  *)
(* no time: time passes only while no waiting Stop has a ready case in its *)
(* select and the loop is blocked in its select or in a blocking call.     *)
(***************************************************************************)
EXTENDS Integers, Sequences, FiniteSets, TLC

\* ---------------------------------------------------------------- bounds
MaxIfaces == 1                 \* most network interfaces a snapshot reports

\* ------------------------------------------------------ program constants
StopTimeout == 5               \* time.After(5 * time.Second) in Stop
MaxInterfacesPerPage == 3      \* config.Default().Network.MaxInterfacesPerPage
SmallDisplayHeight == 32       \* bounds.Dy() <= 32 in BuildPages
StandardDisplayHeight == 64    \* "ssd1306": {Width: 128, Height: 64}

WaitCap == StopTimeout + 1     \* the wait counter saturates here
Heights == {SmallDisplayHeight, StandardDisplayHeight}
RefreshTasks == {"main", "loop"}
StopCallers == {"main", "aux"}
NoStats == [ifaces |-> 0, temp |-> FALSE]
Stats == [ifaces : 0..MaxIfaces, temp : BOOLEAN]

VARIABLES
  mainPc,             \* position of func main
  height,             \* display.GetBounds().Dy()
  pages,              \* Renderer.pages
  currentPage,        \* Manager.currentPage
  lastInterfaceCount, \* Manager.lastInterfaceCount
  rpc,                \* per task: position inside refreshCurrentPage
  rstats,             \* per task: systemStats
  rchanged,           \* per task: interfaceCountChanged
  ridx,               \* per task: pageIdx
  rerr,               \* per task: the error refreshCurrentPage returns
  loopPc,             \* position of Manager.run
  tickers,            \* "none", "running" or "stopped"
  rotationTick,       \* a tick is buffered in rotationTicker.C
  refreshTick,        \* a tick is buffered in refreshTicker.C
  ctxDone,            \* ctx.Done() is closed
  stopOnceDone,       \* Manager.stopOnce has run
  stopChanClosed,     \* Manager.stopChan is closed
  stoppedChanClosed,  \* Manager.stoppedChan is closed
  stopPc,             \* per Stop caller: "idle", "waiting", "returned"
  waited,             \* per Stop caller: seconds spent in the select
  how,                \* per Stop caller: the select case taken
  startResult,        \* what Start returned: "none", "ok", "error"
  processPanic,       \* the task whose panic reached the process
  loopPanicked,       \* a panic was raised inside Manager.run
  loopLog,            \* the last message logged by Manager.run
  clients,            \* the client tasks besides main that hold the *Manager
  ssEnabled,          \* ScreenSaver.cfg.Enabled
  ssMode,             \* ScreenSaver.cfg.Mode
  ssPc,               \* position of the screen-saver goroutine
  ssTick,             \* a tick is buffered in ScreenSaver.ticker.C
  ssActive,           \* ScreenSaver.isActive
  ssOp,               \* the brightness change in flight
  ssStopClosed,       \* ScreenSaver.stopChan is closed
  metricsCollector,   \* Manager.metricsCollector is not nil
  metricsCurrentPage, \* the gauge Collector.CurrentPage
  drv,                \* the Display implementation behind the contract
  panel,              \* the driver's width and height
  rotation,           \* the rotation the driver was constructed with
  madctl,             \* the MADCTL byte applyRotation sent
  colOffset,          \* ST7735Display.colOffset
  rowOffset,          \* ST7735Display.rowOffset
  img,                \* the driver's in-memory framebuffer
  dc,                 \* level of the data/command line
  call,               \* the call in progress on the driver
  todo,               \* the bus operations the call has still to make
  bus,                \* the bus operations the call has made
  result,             \* what the last call returned
  burstMode,          \* burst mode of the bridge MCU
  flushed,            \* the last frame transmitted completely
  shouldError,        \* MockDisplay.shouldError
  cfg,                \* main's cfg.Display
  buildPc,            \* position in loading, validation and construction
  validated,          \* Config.Validate accepted cfg
  ctor,               \* the constructor NewDisplay delegated to
  port,               \* the SPI port or I2C bus the constructor opened
  newDrv,             \* the driver struct under construction
  disp,               \* the Display the constructor returned
  buildErr,           \* the error validation or construction returned
  mgrCfg,             \* the configuration the Manager was created with
  reloadLog,          \* what the last SIGHUP logged
  geom,               \* width and height the framebuffers were made with
  mbuf,               \* MockDisplay.buffer
  gray,               \* SSD1306Display.img
  nrgba,              \* ST7735Display.img / UCTRONICSDisplay.img
  drawOp,             \* the last drawing call and what it returned
  drawPanic,          \* a drawing call indexed outside its buffer
  mock,               \* MockDisplay: errorMsg, initialized, the call log
  rpage,              \* per caller of RenderPage: the page it fetched
  saver,              \* ScreenSaver: mu, lastActive, the clock, its callers
  retry,              \* one call of retry.Do or retry.DoWithResult
  health              \* Checker.components

mgrVars == <<pages, currentPage, lastInterfaceCount, rpc, rstats, rchanged,
             ridx, rerr, loopPc, tickers, rotationTick, refreshTick>>
chanVars == <<ctxDone, stopOnceDone, stopChanClosed, stoppedChanClosed>>
stopVars == <<stopPc, waited, how>>
ssVars == <<ssEnabled, ssMode, ssPc, ssTick, ssActive, ssOp, ssStopClosed>>
obsVars == <<startResult, processPanic, loopPanicked, loopLog, clients>>
metricsVars == <<metricsCollector, metricsCurrentPage>>
drvVars == <<drv, panel, rotation, madctl, colOffset, rowOffset, img, dc,
             call, todo, bus, result, burstMode, flushed, shouldError>>
buildVars == <<cfg, buildPc, validated, ctor, port, newDrv, disp, buildErr,
               mgrCfg, reloadLog>>
drawVars == <<geom, mbuf, gray, nrgba, drawOp, drawPanic, mock, rpage,
              saver>>
libVars == <<retry, health>>
extVars == <<buildVars, drawVars, libVars>>
vars == <<mainPc, height, mgrVars, chanVars, stopVars, ssVars, obsVars,
          metricsVars, drvVars, extVars>>

\* ------------------------------------------------------------- renderer
Page(kind, num) == [kind |-> kind, num |-> num]

\* Renderer.BuildPages: the page list for a snapshot on a display of height h
BuildPages(h, s) ==
  LET sys == IF h <= SmallDisplayHeight
             THEN <<Page("disk", 0), Page("memory", 0)>>
                  \o (IF s.temp THEN <<Page("cpu", 0)>> ELSE <<>>)
             ELSE <<Page("system", 0)>>
      totalPages == IF s.ifaces > 0
                    THEN (s.ifaces + MaxInterfacesPerPage - 1)
                           \div MaxInterfacesPerPage
                    ELSE 0
  IN sys \o [i \in 1..totalPages |-> Page("network", i)]

\* Renderer.PageCount
PageCount == Len(pages)

\* the longest page list BuildPages returns: disk, memory, cpu and the
\* network pages
MaxPageCount ==
  3 + (MaxIfaces + MaxInterfacesPerPage - 1) \div MaxInterfacesPerPage

\* the process is running: os.Exit, a return of main or a crash ends all tasks
Alive == mainPc \notin {"fatal", "crashed", "done"}

\* configuration loading, driver construction and the drawing operations
\* have their own specifications
NoConfig == [type |-> <<>>, width |-> 0, height |-> 0, rotation |-> 0,
             i2cBus |-> "", i2cAddress |-> "", spiBus |-> "", dcPin |-> "",
             rstPin |-> ""]
NoDriver == [family |-> "nil", width |-> 0, height |-> 0, rotation |-> 0,
             done |-> {}]
NoDraw == [name |-> "none", x |-> 0, y |-> 0, w |-> 0, h |-> 0,
           on |-> FALSE, ret |-> "none", n |-> 0, texts |-> 0]

BuildNone ==
  /\ cfg = NoConfig
  /\ buildPc = "none"
  /\ validated = FALSE
  /\ ctor = "none"
  /\ port = "none"
  /\ newDrv = NoDriver
  /\ disp = NoDriver
  /\ buildErr = "none"
  /\ mgrCfg = NoConfig
  /\ reloadLog = "none"

\* the ScreenSaver New returns, at time 0: the lock free, lastActive now,
\* no call in progress; level is the brightness of the display, failed says
\* that a SetBrightness call failed, ended names the call that has just
\* returned
NoSaver == [mu |-> "free", now |-> 0, lastActive |-> 0,
            pc |-> [t \in {"check", "reset", "update"} |-> "idle"],
            level |-> "normal", failed |-> FALSE, ended |-> "none",
            updates |-> 0, resets |-> 0]

\* no page is held
NoPage == [kind |-> "none", num |-> 0]

\* the MockDisplay NewMockDisplay returns; steps, last, ret, failures and
\* armed keep the number of method calls, the last method, what it
\* returned, how many calls returned an error and the arguments of the
\* last SetError
NoMock == [errorMsg |-> "", initialized |-> FALSE, calls |-> 0, steps |-> 0,
           last |-> "none", ret |-> [failed |-> FALSE, msg |-> ""],
           failures |-> 0, armed |-> [on |-> FALSE, msg |-> ""]]

\* no call of retry.Do is made
NoRetry == [pc |-> "none", fn |-> "none", MaxAttempts |-> 0, delay |-> 0,
            attempt |-> 0, calls |-> 0, successes |-> 0, lastErr |-> "nil",
            ret |-> [kind |-> "none", wraps |-> "nil"], result |-> 0,
            cancelled |-> FALSE,
            last |-> "none"]

\* no Checker is created
NoHealth == [components |-> <<>>, last |-> "none", name |-> "",
             was |-> "healthy"]

LibNone ==
  /\ retry = NoRetry
  /\ health = NoHealth

DrawNone ==
  /\ LibNone
  /\ geom = [w |-> 0, h |-> 0]
  /\ mbuf = <<>>
  /\ gray = {}
  /\ nrgba = {}
  /\ drawOp = NoDraw
  /\ drawPanic = FALSE
  /\ mock = NoMock
  /\ rpage = [t \in RefreshTasks |-> NoPage]
  /\ saver = NoSaver

\* the Display behind the renderer is not modelled at the level of its bus:
\* RenderReturn and SsCallReturn stand for its calls
DrvNone ==
  /\ drv = "none"
  /\ panel = [width |-> 0, height |-> 0]
  /\ rotation = 0
  /\ madctl = 0
  /\ colOffset = 0
  /\ rowOffset = 0
  /\ img = 0
  /\ dc = "unset"
  /\ call = [name |-> "none", len |-> 0]
  /\ todo = <<>>
  /\ bus = <<>>
  /\ result = "none"
  /\ burstMode = FALSE
  /\ flushed = 0
  /\ shouldError = FALSE

\* ----------------------------------------------------------------- Init
Init ==
  /\ mainPc \in {"ssStart", "mgrStart"}
  /\ height \in Heights
  /\ \E s \in Stats : pages \in {<<>>, BuildPages(height, s)}
  /\ currentPage = 0
  /\ lastInterfaceCount = -1
  /\ rpc = [t \in RefreshTasks |-> "idle"]
  /\ rstats = [t \in RefreshTasks |-> NoStats]
  /\ rchanged = [t \in RefreshTasks |-> FALSE]
  /\ ridx = [t \in RefreshTasks |-> 0]
  /\ rerr = [t \in RefreshTasks |-> FALSE]
  /\ loopPc = "notStarted"
  /\ tickers = "none"
  /\ rotationTick = FALSE
  /\ refreshTick = FALSE
  /\ ctxDone = FALSE
  /\ stopOnceDone = FALSE
  /\ stopChanClosed = FALSE
  /\ stoppedChanClosed = FALSE
  /\ stopPc = [c \in StopCallers |-> "idle"]
  /\ waited = [c \in StopCallers |-> 0]
  /\ how = [c \in StopCallers |-> "none"]
  /\ startResult = "none"
  /\ processPanic = "none"
  /\ loopPanicked = FALSE
  /\ loopLog = "none"
  /\ clients \in {{}, {"aux"}}
  /\ ssEnabled \in BOOLEAN
  /\ ssMode \in {"off", "dim", "blank"}
  /\ ssPc = "notStarted"
  /\ ssTick = FALSE
  /\ ssActive = FALSE
  /\ ssOp = "none"
  /\ ssStopClosed = FALSE
  /\ metricsCollector \in BOOLEAN
  /\ metricsCurrentPage = 0
  /\ DrvNone
  /\ BuildNone
  /\ DrawNone

\* ------------------------------------------------- Manager.run, deferred
panicVars == <<loopPc, tickers, stoppedChanClosed, loopPanicked, loopLog,
               processPanic, mainPc>>

\* the deferred functions of run: both tickers stopped, a panic recovered
\* and logged, stoppedChan closed
RunDeferred_NoRecover(panicked) ==
  /\ loopPc' = "exited"
  /\ tickers' = "stopped"
  /\ stoppedChanClosed' = TRUE
  /\ loopPanicked' = (loopPanicked \/ panicked)
  /\ UNCHANGED loopLog
  /\ processPanic' = IF panicked THEN "loop" ELSE processPanic
  /\ mainPc' = IF panicked THEN "crashed" ELSE mainPc

RunDeferred(panicked) ==
  /\ loopPc' = "exited"
  /\ tickers' = "stopped"
  /\ stoppedChanClosed' = TRUE
  /\ loopPanicked' = (loopPanicked \/ panicked)
  /\ loopLog' = IF panicked THEN "PANIC in rotation manager" ELSE loopLog
  /\ UNCHANGED <<processPanic, mainPc>>

\* a panic raised in task t inside refreshCurrentPage: the loop has a
\* recover at its boundary, the caller of Start has none
Panic(t) ==
  /\ rpc' = [rpc EXCEPT ![t] = "idle"]
  /\ IF t = "loop"
     THEN RunDeferred(TRUE)
     ELSE /\ processPanic' = t
          /\ mainPc' = "crashed"
          /\ UNCHANGED <<loopPc, tickers, stoppedChanClosed, loopPanicked,
                         loopLog>>

\* ------------------------------------------- Manager.refreshCurrentPage
refreshFrame == <<height, rotationTick, refreshTick, ctxDone, stopOnceDone,
                  stopChanClosed, stopVars, ssVars, startResult, clients>>

\* m.collector.Collect() returns a snapshot or an error, or panics
CollectReturn(t) ==
  /\ Alive
  /\ rpc[t] = "collecting"
  /\ \/ \E s \in Stats :
          /\ rstats' = [rstats EXCEPT ![t] = s]
          /\ rpc' = [rpc EXCEPT ![t] = "lock1"]
          /\ UNCHANGED <<rerr, panicVars>>
     \/ /\ rerr' = [rerr EXCEPT ![t] = TRUE]
        /\ rpc' = [rpc EXCEPT ![t] = "done"]
        /\ UNCHANGED <<rstats, panicVars>>
     \/ /\ Panic(t)
        /\ UNCHANGED <<rstats, rerr>>
  /\ UNCHANGED <<pages, currentPage, lastInterfaceCount, rchanged, ridx, refreshFrame>>
  /\ UNCHANGED <<metricsVars, drvVars, extVars>>

\* first section under m.mu: compare and record the interface count
RefreshLock1_AlwaysRebuild(t) ==
  /\ Alive
  /\ rpc[t] = "lock1"
  /\ rchanged' = [rchanged EXCEPT ![t] = TRUE]
  /\ lastInterfaceCount' = rstats[t].ifaces
  /\ rpc' = [rpc EXCEPT ![t] = "build"]
  /\ UNCHANGED <<pages, currentPage, rstats, ridx, rerr, panicVars,
                 refreshFrame>>
  /\ UNCHANGED <<metricsVars, drvVars, extVars>>

RefreshLock1(t) ==
  /\ Alive
  /\ rpc[t] = "lock1"
  /\ LET changed == rstats[t].ifaces # lastInterfaceCount
     IN /\ rchanged' = [rchanged EXCEPT ![t] = changed]
        /\ lastInterfaceCount' =
             IF changed THEN rstats[t].ifaces ELSE lastInterfaceCount
  /\ rpc' = [rpc EXCEPT ![t] = "build"]
  /\ UNCHANGED <<pages, currentPage, rstats, ridx, rerr, panicVars,
                 refreshFrame>>
  /\ UNCHANGED <<metricsVars, drvVars, extVars>>

\* m.renderer.BuildPages(systemStats) when the count changed
RefreshBuild(t) ==
  /\ Alive
  /\ rpc[t] = "build"
  /\ pages' = IF rchanged[t] THEN BuildPages(height, rstats[t]) ELSE pages
  /\ rpc' = [rpc EXCEPT ![t] = "clamp"]
  /\ rstats' = [rstats EXCEPT ![t] = NoStats]
  /\ rchanged' = [rchanged EXCEPT ![t] = FALSE]
  /\ UNCHANGED <<currentPage, lastInterfaceCount, ridx, rerr, panicVars,
                 refreshFrame>>
  /\ UNCHANGED <<metricsVars, drvVars, extVars>>

\* second section under m.mu: clamp the index, then call RenderPage, which
\* returns nil at once for an index outside the page list
RefreshClamp(t) ==
  /\ Alive
  /\ rpc[t] = "clamp"
  /\ LET over == currentPage >= PageCount
         idx == IF over THEN 0 ELSE currentPage
     IN /\ currentPage' = idx
        /\ IF idx < 0 \/ idx >= PageCount
           THEN /\ rpc' = [rpc EXCEPT ![t] = "done"]
                /\ UNCHANGED ridx
           ELSE /\ rpc' = [rpc EXCEPT ![t] = "rendering"]
                /\ ridx' = [ridx EXCEPT ![t] = idx]
  /\ UNCHANGED <<pages, lastInterfaceCount, rstats, rchanged, rerr,
                 panicVars, refreshFrame>>
  /\ UNCHANGED <<metricsVars, drvVars, extVars>>

\* page.Render(display, stats) returns nil or an error, or panics
RenderReturn(t) ==
  /\ Alive
  /\ rpc[t] = "rendering"
  /\ \/ \E e \in BOOLEAN :
          /\ rerr' = [rerr EXCEPT ![t] = e]
          /\ rpc' = [rpc EXCEPT ![t] = "done"]
          /\ UNCHANGED panicVars
     \/ /\ Panic(t)
        /\ UNCHANGED rerr
  /\ ridx' = [ridx EXCEPT ![t] = 0]
  /\ UNCHANGED <<pages, currentPage, lastInterfaceCount, rstats, rchanged,
                 refreshFrame>>
  /\ UNCHANGED <<metricsVars, drvVars, extVars>>

\* --------------------------------------------------------- Manager.Start
\* interval parsing, NewTicker twice, entry into the initial render
StartBegin_LaunchFirst ==
  /\ mainPc = "mgrStart"
  /\ \E valid \in BOOLEAN :
       IF valid
       THEN /\ tickers' = "running"
            /\ rpc' = [rpc EXCEPT !["main"] = "collecting"]
            /\ mainPc' = "inStart"
            /\ loopPc' = "select"
            /\ UNCHANGED startResult
       ELSE /\ startResult' = "error"
            /\ mainPc' = "fatal"
            /\ UNCHANGED <<tickers, rpc, loopPc>>
  /\ UNCHANGED <<height, pages, currentPage, lastInterfaceCount, rstats,
                 rchanged, ridx, rerr, rotationTick, refreshTick,
                 chanVars, stopVars, ssVars, processPanic,
                 loopPanicked, loopLog, clients>>
  /\ UNCHANGED <<metricsVars, drvVars, extVars>>

StartBegin ==
  /\ mainPc = "mgrStart"
  /\ \E valid \in BOOLEAN :
       IF valid
       THEN /\ tickers' = "running"
            /\ rpc' = [rpc EXCEPT !["main"] = "collecting"]
            /\ mainPc' = "inStart"
            /\ UNCHANGED startResult
       ELSE /\ startResult' = "error"
            /\ mainPc' = "fatal"
            /\ UNCHANGED <<tickers, rpc>>
  /\ UNCHANGED <<height, pages, currentPage, lastInterfaceCount, rstats,
                 rchanged, ridx, rerr, loopPc, rotationTick, refreshTick, chanVars, stopVars, ssVars, processPanic,
                 loopPanicked, loopLog, clients>>
  /\ UNCHANGED <<metricsVars, drvVars, extVars>>

\* the initial render returned: an error is returned to main, which exits;
\* otherwise `go m.run(ctx)` and return nil
StartFinish_LaunchAnyway ==
  /\ mainPc = "inStart"
  /\ rpc["main"] = "done"
  /\ IF rerr["main"]
     THEN /\ startResult' = "error"
          /\ mainPc' = "fatal"
     ELSE /\ startResult' = "ok"
          /\ mainPc' = "running"
  /\ loopPc' = "select"
  /\ rpc' = [rpc EXCEPT !["main"] = "idle"]
  /\ UNCHANGED <<height, pages, currentPage, lastInterfaceCount, rstats,
                 rchanged, ridx, rerr, tickers, rotationTick, refreshTick,
                 chanVars, stopVars, ssVars, processPanic,
                 loopPanicked, loopLog, clients>>
  /\ UNCHANGED <<metricsVars, drvVars, extVars>>

StartFinish ==
  /\ mainPc = "inStart"
  /\ rpc["main"] = "done"
  /\ IF rerr["main"]
     THEN /\ startResult' = "error"
          /\ mainPc' = "fatal"
          /\ UNCHANGED loopPc
     ELSE /\ startResult' = "ok"
          /\ mainPc' = "running"
          /\ loopPc' = "select"
  /\ rpc' = [rpc EXCEPT !["main"] = "idle"]
  /\ UNCHANGED <<height, pages, currentPage, lastInterfaceCount, rstats,
                 rchanged, ridx, rerr, tickers, rotationTick, refreshTick, chanVars, stopVars, ssVars, processPanic,
                 loopPanicked, loopLog, clients>>
  /\ UNCHANGED <<metricsVars, drvVars, extVars>>

\* ----------------------------------------------------------- Manager.run
loopFrame == <<mainPc, height, chanVars, stopVars, ssVars, startResult,
               processPanic, loopPanicked, clients>>

\* case <-ctx.Done() / case <-m.stopChan: return
LoopExit_NeedsTick ==
  /\ Alive
  /\ loopPc = "select"
  /\ ctxDone \/ stopChanClosed
  /\ rotationTick \/ refreshTick
  /\ RunDeferred(FALSE)
  /\ UNCHANGED <<height, pages, currentPage, lastInterfaceCount, rpc, rstats,
                 rchanged, ridx, rerr, rotationTick, refreshTick,
                 ctxDone, stopOnceDone, stopChanClosed, stopVars, ssVars,
                 startResult, clients>>
  /\ UNCHANGED <<metricsVars, drvVars, extVars>>

LoopExit ==
  /\ Alive
  /\ loopPc = "select"
  /\ ctxDone \/ stopChanClosed
  /\ RunDeferred(FALSE)
  /\ UNCHANGED <<height, pages, currentPage, lastInterfaceCount, rpc, rstats,
                 rchanged, ridx, rerr, rotationTick, refreshTick,
                 ctxDone, stopOnceDone, stopChanClosed, stopVars, ssVars,
                 startResult, clients>>
  /\ UNCHANGED <<metricsVars, drvVars, extVars>>

\* rotatePage: the index after m.currentPage++ and the wrap to 0
NextPage_NoWrap(cur, count) ==
  IF cur + 1 > count THEN 0 ELSE cur + 1

NextPage(cur, count) ==
  IF cur + 1 >= count THEN 0 ELSE cur + 1

\* case <-m.rotationTicker.C: m.rotatePage(), which ends with
\* RecordPageRotation(page) when a metrics collector is attached
LoopRotate_Renders ==
  /\ Alive
  /\ loopPc = "select"
  /\ rotationTick
  /\ rotationTick' = FALSE
  /\ currentPage' = NextPage(currentPage, PageCount)
  /\ metricsCurrentPage' =
       IF metricsCollector THEN currentPage' ELSE metricsCurrentPage
  /\ IF currentPage' < PageCount
     THEN /\ loopPc' = "refreshing"
          /\ rpc' = [rpc EXCEPT !["loop"] = "rendering"]
          /\ ridx' = [ridx EXCEPT !["loop"] = currentPage']
     ELSE UNCHANGED <<loopPc, rpc, ridx>>
  /\ UNCHANGED <<pages, lastInterfaceCount, rstats, rchanged,
                 rerr, tickers, refreshTick, loopLog, loopFrame>>
  /\ UNCHANGED <<metricsCollector, drvVars, extVars>>

LoopRotate ==
  /\ Alive
  /\ loopPc = "select"
  /\ rotationTick
  /\ rotationTick' = FALSE
  /\ currentPage' = NextPage(currentPage, PageCount)
  /\ metricsCurrentPage' =
       IF metricsCollector THEN currentPage' ELSE metricsCurrentPage
  /\ UNCHANGED <<pages, lastInterfaceCount, rpc, rstats, rchanged, ridx,
                 rerr, loopPc, tickers, refreshTick, loopLog, loopFrame>>
  /\ UNCHANGED <<metricsCollector, drvVars, extVars>>

\* case <-m.refreshTicker.C: entry into refreshCurrentPage
LoopRefreshBegin ==
  /\ Alive
  /\ loopPc = "select"
  /\ refreshTick
  /\ refreshTick' = FALSE
  /\ loopPc' = "refreshing"
  /\ rpc' = [rpc EXCEPT !["loop"] = "collecting"]
  /\ UNCHANGED <<pages, currentPage, lastInterfaceCount, rstats, rchanged,
                 ridx, rerr, tickers, rotationTick, loopLog,
                 loopFrame>>
  /\ UNCHANGED <<metricsVars, drvVars, extVars>>

\* refreshCurrentPage returned: log an error, go back to the select
LoopRefreshDone_ExitOnError ==
  /\ Alive
  /\ loopPc = "refreshing"
  /\ rpc["loop"] = "done"
  /\ rpc' = [rpc EXCEPT !["loop"] = "idle"]
  /\ rerr' = [rerr EXCEPT !["loop"] = FALSE]
  /\ IF rerr["loop"]
     THEN /\ RunDeferred(FALSE)
          /\ UNCHANGED <<height, ctxDone, stopOnceDone, stopChanClosed,
                         stopVars, ssVars, startResult, clients>>
     ELSE /\ loopPc' = "select"
          /\ UNCHANGED <<tickers, loopLog, loopFrame>>
  /\ UNCHANGED <<pages, currentPage, lastInterfaceCount, rstats, rchanged,
                 ridx, rotationTick, refreshTick>>
  /\ UNCHANGED <<metricsVars, drvVars, extVars>>

LoopRefreshDone ==
  /\ Alive
  /\ loopPc = "refreshing"
  /\ rpc["loop"] = "done"
  /\ loopLog' = IF rerr["loop"] THEN "refresh error" ELSE loopLog
  /\ loopPc' = "select"
  /\ rpc' = [rpc EXCEPT !["loop"] = "idle"]
  /\ rerr' = [rerr EXCEPT !["loop"] = FALSE]
  /\ UNCHANGED <<pages, currentPage, lastInterfaceCount, rstats, rchanged,
                 ridx, tickers, rotationTick, refreshTick,
                 loopFrame>>
  /\ UNCHANGED <<metricsVars, drvVars, extVars>>

\* the runtime delivers a tick into a ticker channel of capacity one
TickRotation ==
  /\ Alive
  /\ tickers = "running"
  /\ ~rotationTick
  /\ rotationTick' = TRUE
  /\ UNCHANGED <<mainPc, height, pages, currentPage, lastInterfaceCount, rpc,
                 rstats, rchanged, ridx, rerr, loopPc, tickers, refreshTick, chanVars, stopVars, ssVars, obsVars>>
  /\ UNCHANGED <<metricsVars, drvVars, extVars>>

TickRefresh ==
  /\ Alive
  /\ tickers = "running"
  /\ ~refreshTick
  /\ refreshTick' = TRUE
  /\ UNCHANGED <<mainPc, height, pages, currentPage, lastInterfaceCount, rpc,
                 rstats, rchanged, ridx, rerr, loopPc, tickers, rotationTick, chanVars, stopVars, ssVars, obsVars>>
  /\ UNCHANGED <<metricsVars, drvVars, extVars>>

\* ---------------------------------------------------------- Manager.Stop
\* m.stopOnce.Do(func() { close(m.stopChan) }): the close runs once; a
\* close of a closed channel panics in the calling task
StopOnceDo_NoGuard(c) ==
  /\ stopChanClosed' = TRUE
  /\ processPanic' = IF stopChanClosed THEN "stop" ELSE processPanic
  /\ UNCHANGED stopOnceDone

StopOnceDo(c) ==
  IF stopOnceDone
  THEN UNCHANGED <<stopOnceDone, stopChanClosed, processPanic>>
  ELSE /\ stopOnceDone' = TRUE
       /\ stopChanClosed' = TRUE
       /\ processPanic' = IF stopChanClosed THEN "stop" ELSE processPanic

\* the select of Stop has a ready case
StopCanReturn_NoTimeout(c) ==
  stoppedChanClosed

StopCanReturn(c) ==
  stoppedChanClosed \/ waited[c] >= StopTimeout

\* entry into Stop up to its select; main calls it at shutdown, any other
\* client once Start has returned nil
StopCall_ResetsPage(c) ==
  /\ Alive
  /\ stopPc[c] = "idle"
  /\ IF c = "main" THEN mainPc = "stop"
     ELSE c \in clients /\ startResult = "ok"
  /\ StopOnceDo(c)
  /\ stopPc' = [stopPc EXCEPT ![c] = "waiting"]
  /\ waited' = [waited EXCEPT ![c] = 0]
  /\ currentPage' = 0
  /\ mainPc' = IF processPanic' # "none" THEN "crashed" ELSE mainPc
  /\ UNCHANGED <<height, pages, lastInterfaceCount, rpc, rstats, rchanged,
                 ridx, rerr, loopPc, tickers, rotationTick, refreshTick,
                 ctxDone, stoppedChanClosed, how, ssVars,
                 startResult, loopPanicked, loopLog, clients>>
  /\ UNCHANGED <<metricsVars, drvVars, extVars>>

StopCall(c) ==
  /\ Alive
  /\ stopPc[c] = "idle"
  /\ IF c = "main" THEN mainPc = "stop"
     ELSE c \in clients /\ startResult = "ok"
  /\ StopOnceDo(c)
  /\ stopPc' = [stopPc EXCEPT ![c] = "waiting"]
  /\ waited' = [waited EXCEPT ![c] = 0]
  /\ mainPc' = IF processPanic' # "none" THEN "crashed" ELSE mainPc
  /\ UNCHANGED <<height, mgrVars, ctxDone, stoppedChanClosed, how, ssVars,
                 startResult, loopPanicked, loopLog, clients>>
  /\ UNCHANGED <<metricsVars, drvVars, extVars>>

\* the select of Stop takes a ready case and Stop returns
StopReturn(c) ==
  /\ Alive
  /\ stopPc[c] = "waiting"
  /\ StopCanReturn(c)
  /\ \E h \in {"stopped", "timeout"} :
       /\ h = "stopped" => stoppedChanClosed
       /\ h = "timeout" => waited[c] >= StopTimeout
       /\ how' = [how EXCEPT ![c] = h]
  /\ stopPc' = [stopPc EXCEPT ![c] = "returned"]
  /\ waited' = [waited EXCEPT ![c] = 0]
  /\ mainPc' = IF c = "main" THEN "ssStop" ELSE mainPc
  /\ UNCHANGED <<height, mgrVars, chanVars, ssVars, obsVars>>
  /\ UNCHANGED <<metricsVars, drvVars, extVars>>

\* the loop cannot take a step by itself: it does not run, its select has
\* no ready case, or it is inside a blocking Collect or Render
LoopBlocked ==
  \/ loopPc \in {"notStarted", "exited"}
  \/ /\ loopPc = "select"
     /\ ~(ctxDone \/ stopChanClosed \/ rotationTick \/ refreshTick)
  \/ /\ loopPc = "refreshing"
     /\ rpc["loop"] \in {"collecting", "rendering"}

\* one second passes while every waiting Stop is blocked in its select and
\* the loop is blocked
Advance ==
  /\ Alive
  /\ LoopBlocked
  /\ \E c \in StopCallers : stopPc[c] = "waiting"
  /\ \A c \in StopCallers :
       stopPc[c] = "waiting" => ~StopCanReturn(c) /\ waited[c] < WaitCap
  /\ waited' = [c \in StopCallers |->
                  IF stopPc[c] = "waiting" THEN waited[c] + 1 ELSE waited[c]]
  /\ UNCHANGED <<mainPc, height, mgrVars, chanVars, stopPc, how,
                 ssVars, obsVars>>
  /\ UNCHANGED <<metricsVars, drvVars, extVars>>

\* ---------------------------------------------------- Manager.CurrentPage
\* what CurrentPage() returns to a caller in this state (a read under m.mu)
CurrentPage == currentPage

\* ------------------------------------------------------------ ScreenSaver
\* a display call of the screen saver is in flight
SsInFlight == ssPc = "calling"

\* ScreenSaver.Start, called by main: initial SetBrightness, NewTicker and
\* the goroutine, all only when enabled
SsStart ==
  /\ mainPc = "ssStart"
  /\ ssPc' = IF ssEnabled THEN "select" ELSE ssPc
  /\ mainPc' = "mgrStart"
  /\ UNCHANGED <<height, mgrVars, chanVars, stopVars, ssEnabled, ssMode,
                 ssTick, ssActive, ssOp, ssStopClosed, obsVars>>
  /\ UNCHANGED <<metricsVars, drvVars, extVars>>

\* the runtime delivers a tick into s.ticker.C
SsTicker ==
  /\ Alive
  /\ ssPc \in {"select", "calling"}
  /\ ~ssTick
  /\ ssTick' = TRUE
  /\ UNCHANGED <<mainPc, height, mgrVars, chanVars, stopVars, ssEnabled,
                 ssMode, ssPc, ssActive, ssOp, ssStopClosed, obsVars>>
  /\ UNCHANGED <<metricsVars, drvVars, extVars>>

\* case <-ctx.Done() / case <-s.stopChan: s.ticker.Stop(); return
SsExit ==
  /\ Alive
  /\ ssPc = "select"
  /\ ctxDone \/ ssStopClosed
  /\ ssPc' = "exited"
  /\ UNCHANGED <<mainPc, height, mgrVars, chanVars, stopVars, ssEnabled,
                 ssMode, ssTick, ssActive, ssOp, ssStopClosed, obsVars>>
  /\ UNCHANGED <<metricsVars, drvVars, extVars>>

\* case <-s.ticker.C: s.check(), up to the SetBrightness call of activate
\* or deactivate; idle says whether the idle condition holds at time.Now()
SsCheck ==
  /\ Alive
  /\ ssPc = "select"
  /\ ssTick
  /\ ssTick' = FALSE
  /\ \E idle \in BOOLEAN :
       LET shouldActivate == idle /\ ~ssActive
           shouldDeactivate == ~idle /\ ssActive
       IN IF shouldActivate
          THEN IF ssMode \in {"dim", "blank"}
               THEN /\ ssPc' = "calling"
                    /\ ssOp' = "activate"
                    /\ UNCHANGED ssActive
               ELSE /\ ssActive' = TRUE
                    /\ UNCHANGED <<ssPc, ssOp>>
          ELSE IF shouldDeactivate
               THEN /\ ssPc' = "calling"
                    /\ ssOp' = "deactivate"
                    /\ UNCHANGED ssActive
               ELSE UNCHANGED <<ssPc, ssOp, ssActive>>
  /\ UNCHANGED <<mainPc, height, mgrVars, chanVars, stopVars, ssEnabled,
                 ssMode, ssStopClosed, obsVars>>
  /\ UNCHANGED <<metricsVars, drvVars, extVars>>

\* s.disp.SetBrightness returns; isActive changes only on success
SsCallReturn ==
  /\ Alive
  /\ ssPc = "calling"
  /\ \E ok \in BOOLEAN :
       ssActive' = IF ok THEN ssOp = "activate" ELSE ssActive
  /\ ssPc' = "select"
  /\ ssOp' = "none"
  /\ UNCHANGED <<mainPc, height, mgrVars, chanVars, stopVars, ssEnabled,
                 ssMode, ssTick, ssStopClosed, obsVars>>
  /\ UNCHANGED <<metricsVars, drvVars, extVars>>

\* ------------------------------------------------------ main, shutdown
\* sig := <-sigChan with SIGINT or SIGTERM: goto shutdown
Signal ==
  /\ mainPc = "running"
  /\ mainPc' = "cancel"
  /\ UNCHANGED <<height, mgrVars, chanVars, stopVars, ssVars, obsVars>>
  /\ UNCHANGED <<metricsVars, drvVars, extVars>>

\* cancel()
Cancel ==
  /\ mainPc = "cancel"
  /\ ctxDone' = TRUE
  /\ mainPc' = "stop"
  /\ UNCHANGED <<height, mgrVars, stopOnceDone, stopChanClosed,
                 stoppedChanClosed, stopVars, ssVars, obsVars>>
  /\ UNCHANGED <<metricsVars, drvVars, extVars>>

\* deferred ss.Stop(): close(s.stopChan) when enabled
SsStop ==
  /\ mainPc = "ssStop"
  /\ ssStopClosed' = (ssStopClosed \/ ssEnabled)
  /\ mainPc' = "close"
  /\ UNCHANGED <<height, mgrVars, chanVars, stopVars, ssEnabled, ssMode,
                 ssPc, ssTick, ssActive, ssOp, obsVars>>
  /\ UNCHANGED <<metricsVars, drvVars, extVars>>

\* deferred disp.Close() is called
CloseBegin ==
  /\ mainPc = "close"
  /\ mainPc' = "closing"
  /\ UNCHANGED <<height, mgrVars, chanVars, stopVars, ssVars, obsVars>>
  /\ UNCHANGED <<metricsVars, drvVars, extVars>>

\* disp.Close() returns
CloseEnd ==
  /\ mainPc = "closing"
  /\ mainPc' = "closed"
  /\ UNCHANGED <<height, mgrVars, chanVars, stopVars, ssVars, obsVars>>
  /\ UNCHANGED <<metricsVars, drvVars, extVars>>

\* main returns and the process ends
ProcessExit ==
  /\ mainPc = "closed"
  /\ mainPc' = "done"
  /\ UNCHANGED <<height, mgrVars, chanVars, stopVars, ssVars, obsVars>>
  /\ UNCHANGED <<metricsVars, drvVars, extVars>>

\* ------------------------------------------------------------------ Next
\* the scheduler and its clients, up to the return of Stop
NextMgr ==
  \/ StartBegin
  \/ \E t \in RefreshTasks : CollectReturn(t)
  \/ \E t \in RefreshTasks : RefreshLock1(t)
  \/ \E t \in RefreshTasks : RefreshBuild(t)
  \/ \E t \in RefreshTasks : RefreshClamp(t)
  \/ \E t \in RefreshTasks : RenderReturn(t)
  \/ StartFinish
  \/ LoopExit
  \/ LoopRotate
  \/ LoopRefreshBegin
  \/ LoopRefreshDone
  \/ TickRotation
  \/ TickRefresh
  \/ \E c \in StopCallers : StopCall(c)
  \/ \E c \in StopCallers : StopReturn(c)
  \/ Advance
  \/ Signal
  \/ Cancel

\* the screen saver and the shutdown path of main
NextShutdown ==
  \/ SsStart
  \/ SsTicker
  \/ SsExit
  \/ SsCheck
  \/ SsCallReturn
  \/ SsStop
  \/ CloseBegin
  \/ CloseEnd
  \/ ProcessExit

\* a Manager driven by main and by one more client task; no screen saver
InitMgr ==
  /\ Init
  /\ mainPc = "mgrStart"
  /\ clients = {"aux"}
  /\ ~ssEnabled
  /\ ssMode = "off"

Spec == InitMgr /\ [][NextMgr]_vars

\* the whole daemon: func main from ss.Start to the return of main
InitMain ==
  /\ Init
  /\ mainPc = "ssStart"
  /\ clients = {}
  /\ metricsCollector

SpecMain == InitMain /\ [][NextMgr \/ NextShutdown]_vars

\* a Display Contract call of the scheduler is in flight in task t
SchedInFlight(t) == rpc[t] = "rendering"

\* ================================================================ drivers
\* The Display implementations at the level of their bus.  A call on the
\* driver computes the bus operations it makes, in order (todo); BusStep
\* performs them one at a time, and the first one that fails ends the call
\* with the error.  bus is the log of the operations of the last call that
\* succeeded, each with the level of the data/command line at that moment.

\* ---------------------------------------------------------------- bounds
MaxFrame == 2                  \* distinct framebuffer contents besides blank

\* ------------------------------------------------------ program constants
spiMaxTx == 4096               \* const spiMaxTx
uctronicsBurstMaxLen == 160    \* uctronicsBurstMaxLen
uctronicsBurstWriteReg == 1    \* 0x01
uctronicsSyncReg == 3          \* 0x03
uctronicsXCoordReg == 42       \* 0x2A
uctronicsYCoordReg == 43       \* 0x2B
uctronicsCharDataReg == 44     \* 0x2C
uctronicsXStart == 0
uctronicsYStart == 24
st7735CASET == 42              \* 0x2A
st7735RASET == 43              \* 0x2B
st7735RAMWR == 44              \* 0x2C
madctlMY == 128                \* 0x80
madctlMX == 64                 \* 0x40
madctlMV == 32                 \* 0x20
madctlML == 16                 \* 0x10
st7735RamColumns == 132        \* "132 columns x 162 rows of RAM"
st7735RamRows == 162

Panel(w, h) == [width |-> w, height |-> h]
\* GetDisplaySpec: the dimensions each display type is given
ST7735Panels == {Panel(128, 160), Panel(128, 128), Panel(160, 80)}
UCTRONICSPanels == {Panel(160, 80)}
SSD1306Panels == {Panel(128, 64), Panel(128, 32)}
Drivers == {"st7735", "uctronics", "ssd1306", "mock"}
Blank == 0                     \* the framebuffer after Clear
Frames == 0..MaxFrame
Torn == -1                     \* the panel holds no complete frame
NoCall == [name |-> "none", len |-> 0]

\* uint8(v)
U8(v) == v % 256

\* ---------------------------------------------------------- bus operations
Op(op, kind, from, to, val) ==
  [op |-> op, kind |-> kind, from |-> from, to |-> to, val |-> val]

\* d.dc.Out(level): 0 is gpio.Low, 1 is gpio.High
DcOut(level) == Op("dcOut", "na", 0, 0, <<level>>)
DcLevel(level) == IF level = 0 THEN "low" ELSE "high"

\* d.conn.Tx(data[from:to], nil)
SpiTx(kind, from, to, val) == Op("spiTx", kind, from, to, val)

\* d.bus.Tx(d.addr, data[from:to], nil)
I2cTx(kind, from, to, val) == Op("i2cTx", kind, from, to, val)

\* d.dev.Draw(d.img.Bounds(), d.img, image.Point{})
DevDraw(val) == Op("devDraw", "frame", 0, 0, val)

\* ------------------------------------------------------------ ST7735Display
\* st7735RotationParams: MADCTL byte and RAM offsets of a rotation
st7735RotationParams(p, r) ==
  LET P(m, c, w) == [madctl |-> m, colOffset |-> c, rowOffset |-> w]
  IN IF p.width = 160 /\ p.height = 80
     THEN CASE r = 0 -> P(madctlMX + madctlMV + madctlML, 1, 26)
            [] r = 1 -> P(madctlMY + madctlMV + madctlML, 26, 1)
            [] r = 2 -> P(madctlMY + madctlMV, 1, 26)
            [] OTHER -> P(madctlMX + madctlMV, 26, 1)
     ELSE IF p.width = 128 /\ p.height = 128
     THEN CASE r = 0 -> P(madctlMX + madctlMY, 2, 3)
            [] r = 1 -> P(madctlMY + madctlMV, 3, 2)
            [] r = 2 -> P(0, 2, 1)
            [] OTHER -> P(madctlMX + madctlMV, 1, 2)
     ELSE CASE r = 0 -> P(madctlMX + madctlMY, 0, 0)
            [] r = 1 -> P(madctlMY + madctlMV, 0, 0)
            [] r = 2 -> P(0, 0, 0)
            [] OTHER -> P(madctlMX + madctlMV, 0, 0)

\* sendCmd: DC low, then the command byte
sendCmd_NoDc(cmd) ==
  <<SpiTx("cmd", 0, 1, <<cmd>>)>>

sendCmd(cmd) ==
  <<DcOut(0), SpiTx("cmd", 0, 1, <<cmd>>)>>

\* one pass of the loop of sendData on data[from:to]: the end of the chunk
\* it transmits, at most spiMaxTx bytes after from
spiChunkEnd_OffByOne(from, to) ==
  IF to - from >= spiMaxTx THEN from + spiMaxTx - 1 ELSE to

spiChunkEnd(from, to) ==
  IF to - from > spiMaxTx THEN from + spiMaxTx ELSE to

\* the loop of sendData, entered while len(data) > 0
SpiChunks(kind, from, to, val) ==
  IF to - from > 0 THEN <<Op("spiLoop", kind, from, to, val)>> ELSE <<>>

\* sendData: DC high, then the chunks
sendData(kind, len, val) ==
  <<DcOut(1)>> \o SpiChunks(kind, 0, len, val)

\* sendCmdData
sendCmdData(cmd, data) ==
  sendCmd(cmd)
    \o (IF Len(data) > 0 THEN sendData("param", Len(data), data) ELSE <<>>)

\* setWindow: CASET, RASET with the offsets added in uint8, then RAMWR
setWindow(x0, y0, x1, y1) ==
  LET cx0 == U8(U8(x0) + colOffset)
      cx1 == U8(U8(x1) + colOffset)
      ry0 == U8(U8(y0) + rowOffset)
      ry1 == U8(U8(y1) + rowOffset)
  IN sendCmdData(st7735CASET, <<0, cx0, 0, cx1>>)
       \o sendCmdData(st7735RASET, <<0, ry0, 0, ry1>>)
       \o sendCmd(st7735RAMWR)

\* the length of the RGB565 buffer of Show
FrameLen == panel.width * panel.height * 2

\* ST7735Display.Show
ST7735Show_NoWindow(frame) ==
  sendData("pixels", FrameLen, <<frame>>)

ST7735Show(frame) ==
  setWindow(0, 0, panel.width - 1, panel.height - 1)
    \o sendData("pixels", FrameLen, <<frame>>)

\* --------------------------------------------------------- UCTRONICSDisplay
\* writeCommand: one 3-byte write {register, high, low}
writeCommand(reg, high, low) == <<I2cTx("reg", 0, 3, <<reg, high, low>>)>>

\* setAddressWindow
setAddressWindow(x0, y0, x1, y1) ==
  writeCommand(uctronicsXCoordReg, U8(x0 + uctronicsXStart),
               U8(x1 + uctronicsXStart))
    \o writeCommand(uctronicsYCoordReg, U8(y0 + uctronicsYStart),
                    U8(y1 + uctronicsYStart))
    \o writeCommand(uctronicsCharDataReg, 0, 0)
    \o writeCommand(uctronicsSyncReg, 0, 1)

\* one pass of the loop of burstTransfer: the end of the chunk at offset
burstChunkEnd(offset, len) ==
  IF offset + uctronicsBurstMaxLen > len THEN len
  ELSE offset + uctronicsBurstMaxLen

\* the loop of burstTransfer, entered while offset < len(data)
BurstChunks(kind, offset, len, val) ==
  IF offset < len THEN <<Op("i2cLoop", kind, offset, len, val)>> ELSE <<>>

\* burstTransfer: enable, chunks, disable, sync
burstTransfer_PayloadFirst(kind, len, val) ==
  BurstChunks(kind, 0, len, val)
    \o writeCommand(uctronicsBurstWriteReg, 0, 1)
    \o writeCommand(uctronicsBurstWriteReg, 0, 0)
    \o writeCommand(uctronicsSyncReg, 0, 1)

burstTransfer(kind, len, val) ==
  writeCommand(uctronicsBurstWriteReg, 0, 1)
    \o BurstChunks(kind, 0, len, val)
    \o writeCommand(uctronicsBurstWriteReg, 0, 0)
    \o writeCommand(uctronicsSyncReg, 0, 1)

\* UCTRONICSDisplay.Show
UCTRONICSShow(frame) ==
  setAddressWindow(0, 0, U8(panel.width - 1), U8(panel.height - 1))
    \o burstTransfer("pixels", FrameLen, <<frame>>)

\* ------------------------------------------------------------ all drivers
\* Show of the driver in use, for a framebuffer holding frame
ShowOps(frame) ==
  CASE drv = "st7735" -> ST7735Show(frame)
    [] drv = "uctronics" -> UCTRONICSShow(frame)
    [] drv = "ssd1306" -> <<DevDraw(<<frame>>)>>
    [] OTHER -> <<>>

\* the bus operations Clear makes after it has zeroed the framebuffer:
\* UCTRONICSDisplay.Clear ends with `return d.Show()`
ClearOps ==
  IF drv = "uctronics" THEN UCTRONICSShow(Blank) ELSE <<>>

\* MockDisplay.checkError fails the call
MockFails == drv = "mock" /\ shouldError

\* the largest transaction of the chunked transfer of the driver in use
MaxTx == IF drv = "st7735" THEN spiMaxTx ELSE uctronicsBurstMaxLen

\* payload lengths around the chunk boundaries
BoundaryLens(m) == {1, m - 1, m, m + 1, 2 * m, 2 * m + 1}

\* the scheduler is not part of the driver's specification
SchedNone ==
  /\ mainPc = "mgrStart"
  /\ height = StandardDisplayHeight
  /\ pages = <<>>
  /\ currentPage = 0
  /\ lastInterfaceCount = -1
  /\ rpc = [t \in RefreshTasks |-> "idle"]
  /\ rstats = [t \in RefreshTasks |-> NoStats]
  /\ rchanged = [t \in RefreshTasks |-> FALSE]
  /\ ridx = [t \in RefreshTasks |-> 0]
  /\ rerr = [t \in RefreshTasks |-> FALSE]
  /\ loopPc = "notStarted"
  /\ tickers = "none"
  /\ rotationTick = FALSE
  /\ refreshTick = FALSE
  /\ ctxDone = FALSE
  /\ stopOnceDone = FALSE
  /\ stopChanClosed = FALSE
  /\ stoppedChanClosed = FALSE
  /\ stopPc = [c \in StopCallers |-> "idle"]
  /\ waited = [c \in StopCallers |-> 0]
  /\ how = [c \in StopCallers |-> "none"]
  /\ startResult = "none"
  /\ processPanic = "none"
  /\ loopPanicked = FALSE
  /\ loopLog = "none"
  /\ clients = {}
  /\ ssEnabled = FALSE
  /\ ssMode = "off"
  /\ ssPc = "notStarted"
  /\ ssTick = FALSE
  /\ ssActive = FALSE
  /\ ssOp = "none"
  /\ ssStopClosed = FALSE
  /\ metricsCollector = FALSE
  /\ metricsCurrentPage = 0

schedVars == <<mainPc, height, mgrVars, chanVars, stopVars, ssVars, obsVars,
               metricsVars>>

\* a driver as its constructor returns it: framebuffer zeroed, nothing
\* flushed, and for the ST7735 the rotation applied (applyRotation ends with
\* a sendData, which leaves DC high)
InitDisplay ==
  /\ SchedNone
  /\ BuildNone
  /\ DrawNone
  /\ drv \in Drivers
  /\ panel \in CASE drv = "st7735" -> ST7735Panels
                 [] drv = "uctronics" -> UCTRONICSPanels
                 [] OTHER -> SSD1306Panels
  /\ rotation \in IF drv = "st7735" THEN 0..3 ELSE {0}
  /\ LET p == IF drv = "st7735" THEN st7735RotationParams(panel, rotation)
              ELSE [madctl |-> 0, colOffset |-> 0, rowOffset |-> 0]
     IN /\ madctl = p.madctl
        /\ colOffset = p.colOffset
        /\ rowOffset = p.rowOffset
  /\ img = Blank
  /\ dc = IF drv = "st7735" THEN "high" ELSE "unset"
  /\ call = NoCall
  /\ todo = <<>>
  /\ bus = <<>>
  /\ result = "none"
  /\ burstMode = FALSE
  /\ flushed = Torn
  /\ shouldError = FALSE

\* no call is in progress on the driver
DriverIdle == result # "pending"

drvFrame == <<drv, panel, rotation, madctl, colOffset, rowOffset>>

\* entry into a call: the log starts again and the call's operations are
\* laid out
Enter(name, len, ops) ==
  /\ DriverIdle
  /\ call' = [name |-> name, len |-> len]
  /\ todo' = ops
  /\ bus' = <<>>
  /\ result' = "pending"
  /\ UNCHANGED <<drvFrame, dc, burstMode, flushed, schedVars, extVars>>

\* Clear: the framebuffer is zeroed (the mock returns its error first)
ClearCall ==
  /\ Enter("Clear", IF ClearOps = <<>> THEN 0 ELSE FrameLen, ClearOps)
  /\ img' = IF MockFails THEN img ELSE Blank
  /\ UNCHANGED shouldError

\* DrawPixel, DrawLine, DrawRect, DrawText, DrawImage: framebuffer only
DrawCall ==
  /\ Enter("Draw", 0, <<>>)
  /\ \E f \in Frames \ {Blank} : img' = IF MockFails THEN img ELSE f
  /\ UNCHANGED shouldError

\* Show
ShowCall ==
  /\ Enter("Show", FrameLen, ShowOps(img))
  /\ UNCHANGED <<img, shouldError>>

\* sendData(data...) of the ST7735 driver, burstTransfer(data) of the
\* bridged driver, called with a payload of len bytes
SendDataCall ==
  /\ drv \in {"st7735", "uctronics"}
  /\ \E len \in BoundaryLens(MaxTx) :
       Enter("sendData", len,
             IF drv = "st7735" THEN sendData("data", len, <<0>>)
             ELSE burstTransfer("data", len, <<0>>))
  /\ UNCHANGED <<img, shouldError>>

\* MockDisplay.SetError
SetError ==
  /\ drv = "mock"
  /\ DriverIdle
  /\ shouldError' = ~shouldError
  /\ UNCHANGED <<drvFrame, img, dc, call, todo, bus, result, burstMode,
                 flushed, schedVars, extVars>>

\* the transaction a pass of a chunk loop makes; any other operation is
\* made as it is
ChunkOf(l) ==
  CASE l.op = "spiLoop" ->
         SpiTx(l.kind, l.from, spiChunkEnd(l.from, l.to), l.val)
    [] l.op = "i2cLoop" ->
         I2cTx(l.kind, l.from, burstChunkEnd(l.from, l.to), l.val)
    [] OTHER -> l

\* what is left to do after the head of todo succeeded: a chunk loop goes
\* round again while payload remains
Rest(l, o) ==
  IF l.op \in {"spiLoop", "i2cLoop"} /\ o.to < l.to
  THEN <<[l EXCEPT !.from = o.to]>> \o Tail(todo)
  ELSE Tail(todo)

\* the next bus operation of the call: it succeeds, or it fails and the
\* call returns the error at once.  The bridge follows the burst register;
\* the panel holds a complete frame again after the last pixel chunk.
BusStep ==
  /\ result = "pending"
  /\ todo # <<>>
  /\ LET o == ChunkOf(Head(todo))
     IN \/ /\ todo' = Rest(Head(todo), o)
           /\ dc' = IF o.op = "dcOut" THEN DcLevel(o.val[1]) ELSE dc
           /\ bus' = Append(bus, [o |-> o, dc |-> dc'])
           /\ burstMode' =
                IF o.kind = "reg" /\ o.val[1] = uctronicsBurstWriteReg
                THEN o.val[3] = 1 ELSE burstMode
           /\ flushed' =
                CASE o.kind = "pixels" ->
                       IF o.to = call.len THEN o.val[1] ELSE Torn
                  [] o.kind = "frame" -> o.val[1]
                  [] OTHER -> flushed
           /\ UNCHANGED result
        \/ /\ todo' = <<>>
           /\ result' = "error"
           /\ dc' \in IF o.op = "dcOut" THEN {dc, DcLevel(o.val[1])} ELSE {dc}
           /\ UNCHANGED <<bus, burstMode, flushed>>
  /\ UNCHANGED <<drvFrame, img, call, shouldError, schedVars, extVars>>

\* the call has made all its bus operations and returns
Return ==
  /\ result = "pending"
  /\ todo = <<>>
  /\ result' = IF MockFails THEN "error" ELSE "ok"
  /\ UNCHANGED <<drvFrame, img, dc, call, todo, bus, burstMode, flushed,
                 shouldError, schedVars, extVars>>

NextDisplay ==
  \/ ClearCall
  \/ DrawCall
  \/ ShowCall
  \/ SendDataCall
  \/ SetError
  \/ BusStep
  \/ Return

\* one driver and the one client that calls it
SpecDisplay == InitDisplay /\ [][NextDisplay]_vars

\* ================================================================ claims

\* C1: within one scheduler no two Display Contract calls are in progress at
\* the same time: the initial render of Start is over (and Start's refresh
\* has left refreshCurrentPage) before the control loop exists, and the loop
\* has at most one call in flight.
C1_SchedulerCallsSerialized ==
  /\ Cardinality({t \in RefreshTasks : SchedInFlight(t)}) <= 1
  /\ rpc["main"] # "idle" => loopPc = "notStarted"

\* C1 witness: the loop has a render in flight after Start's render returned
C1_Witness ==
  /\ startResult = "ok"
  /\ SchedInFlight("loop")
  /\ ~SchedInFlight("main")

\* C2: a call of Stop never waits longer than the 5-second timeout, also
\* while the loop sits inside a blocking call and never exits.
C2_StopReturnsWithinTimeout ==
  \A c \in StopCallers :
    /\ waited[c] <= StopTimeout
    /\ stopPc[c] = "waiting" /\ waited[c] = StopTimeout => StopCanReturn(c)

\* C2 witness: a Stop returned by timeout while the loop is still inside a
\* blocking Collect or Render
C2_Witness ==
  \E c \in StopCallers :
    /\ stopPc[c] = "returned"
    /\ how[c] = "timeout"
    /\ loopPc = "refreshing"
    /\ rpc["loop"] \in {"collecting", "rendering"}
    /\ ~stoppedChanClosed

\* C3 as stated: Stop does not panic, and once one call of Stop has
\* returned, any other call of Stop that is in its select can return at once.
C3_SecondStopNeverBlocks ==
  /\ processPanic # "stop"
  /\ \A c \in StopCallers :
       (stopPc[c] = "waiting"
          /\ \E d \in StopCallers \ {c} : stopPc[d] = "returned")
       => StopCanReturn(c)

\* C3 amended: Stop does not panic and closes stopChan once; a second call
\* returns at once when the first call returned because the loop had exited,
\* and otherwise waits for at most the 5-second timeout.
C3_SecondStopBounded ==
  /\ processPanic # "stop"
  /\ stopChanClosed = stopOnceDone
  /\ \A c \in StopCallers :
       (stopPc[c] = "waiting"
          /\ \E d \in StopCallers \ {c} : stopPc[d] = "returned")
       => /\ waited[c] <= StopTimeout
          /\ (\E d \in StopCallers \ {c} : how[d] = "stopped")
               => StopCanReturn(c)

\* C3 witness: two calls of Stop have both returned
C3_Witness ==
  /\ \A c \in StopCallers : stopPc[c] = "returned"
  /\ stopOnceDone

\* C4: the control loop exists only after an initial render that succeeded;
\* when the initial render failed, Start returned an error and no loop was
\* launched.
C4_LoopOnlyAfterInitialRender ==
  /\ loopPc # "notStarted" =>
       startResult = "ok" /\ ~rerr["main"] /\ rpc["main"] = "idle"
  /\ startResult = "error" => loopPc = "notStarted"

\* C4 witness: the initial render failed and Start returned the error
C4_Witness ==
  /\ startResult = "error"
  /\ rerr["main"]
  /\ loopPc = "notStarted"

\* C5 as stated: while disp.Close() runs and after it has returned, no
\* Display Contract call of the scheduler or the screen saver is in flight.
C5_CloseAfterAllCalls ==
  mainPc \in {"closing", "closed"} =>
    /\ ~SsInFlight
    /\ \A t \in RefreshTasks : ~SchedInFlight(t)

\* C6 as stated: after Start returned nil, CurrentPage() is at every moment
\* an index of the page list.
C6_CurrentPageValid ==
  startResult = "ok" => 0 <= CurrentPage /\ CurrentPage < PageCount

\* C7: the step wrote a scheduler state field
Written ==
  <<currentPage, lastInterfaceCount>>' # <<currentPage, lastInterfaceCount>>

\* C7: the step was taken by the control loop (it moved the loop or took a
\* rotation tick out of the ticker channel)
LoopStep ==
  \/ loopPc' # loopPc
  \/ rpc'["loop"] # rpc["loop"]
  \/ rotationTick /\ ~rotationTick'

\* C7: the step was taken by Start's initial render, before the loop exists
InitialRenderStep ==
  /\ rpc'["main"] # rpc["main"]
  /\ mainPc = "inStart"
  /\ loopPc = "notStarted"

\* C7 as stated: every write of currentPage or lastInterfaceCount is a step
\* of the control loop.
C7_WritesOnlyByLoop == [][Written => LoopStep]_vars

\* C7 amended: every write of currentPage or lastInterfaceCount is a step of
\* the control loop or of the initial render that Start runs on its caller's
\* task before the loop is launched.
C7_WritesByLoopOrInitialRender ==
  [][Written => LoopStep \/ InitialRenderStep]_vars

\* C7 witness: Start's render has recorded the interface count and the loop
\* has rotated away from page 0
C7_Witness ==
  /\ startResult = "ok"
  /\ lastInterfaceCount >= 0
  /\ currentPage > 0

\* C8: when refreshCurrentPage returns an error to the loop (Collect or
\* Render failed), the loop's next step logs "refresh error" and goes back
\* to the select, with no second attempt for that tick.
C8_FailedRefreshLoggedLoopContinues ==
  [][(loopPc = "refreshing" /\ rpc["loop"] = "done" /\ rerr["loop"]
        /\ LoopStep)
     => (loopPc' = "select" /\ rpc'["loop"] = "idle"
           /\ loopLog' = "refresh error")]_vars

\* C8 witness: after a logged refresh failure the loop is rendering again
C8_Witness ==
  /\ loopLog = "refresh error"
  /\ loopPc = "refreshing"
  /\ SchedInFlight("loop")

\* C9: after a panic inside the loop, the loop has terminated with
\* stoppedChan closed (a Stop in its select can return by that case), no
\* scheduler call is in flight, and the panic has not reached the process.
C9_PanicCaughtAtLoopBoundary ==
  loopPanicked =>
    /\ loopPc = "exited"
    /\ stoppedChanClosed
    /\ rpc["loop"] = "idle"
    /\ ~SchedInFlight("loop")
    /\ processPanic = "none"
    /\ mainPc # "crashed"
    /\ loopLog = "PANIC in rotation manager"
    /\ \A c \in StopCallers :
         stopPc[c] = "waiting" /\ waited[c] < StopTimeout => StopCanReturn(c)

\* C9 witness: the loop panicked and a Stop returned by the stoppedChan case
C9_Witness ==
  /\ loopPanicked
  /\ \E c \in StopCallers : stopPc[c] = "returned" /\ how[c] = "stopped"

\* ------------------------------------------------------------- liveness
\* the goroutine of run is scheduled, its blocking calls return, and a
\* select that is ready again and again eventually takes each ready case
LoopFairness ==
  /\ WF_vars(CollectReturn("loop"))
  /\ WF_vars(RefreshLock1("loop"))
  /\ WF_vars(RefreshBuild("loop"))
  /\ WF_vars(RefreshClamp("loop"))
  /\ WF_vars(RenderReturn("loop"))
  /\ WF_vars(LoopRefreshDone)
  /\ SF_vars(LoopExit)

\* a Manager without SetMetrics, as the package's tests construct it
InitLive ==
  /\ InitMgr
  /\ ~metricsCollector

LiveSpec == InitLive /\ [][NextMgr]_vars /\ LoopFairness

\* C10: once the context is cancelled or stopChan is closed, a running loop
\* exits, whether or not a ticker ever fires again.
C10_CancelLeadsToExit ==
  (loopPc \in {"select", "refreshing"} /\ (ctxDone \/ stopChanClosed))
    ~> (loopPc = "exited")

\* C10 witness: after cancel() the loop has exited with no tick buffered and
\* main's Stop returned by the stoppedChan case without waiting
C10_Witness ==
  /\ ctxDone
  /\ loopPc = "exited"
  /\ ~rotationTick /\ ~refreshTick
  /\ stopPc["main"] = "returned"
  /\ how["main"] = "stopped"

\* ------------------------------------------------------- rotation, refresh
\* the loop took a tick out of rotationTicker.C
RotationTickStep == rotationTick /\ ~rotationTick'

\* task t moved inside refreshCurrentPage
RefreshStep(t, from, to) == rpc[t] = from /\ rpc'[t] = to

\* k calls of rotatePage on a list of count pages, starting at index cur
RECURSIVE Rotations(_, _, _)
Rotations(cur, count, k) ==
  IF k = 0 THEN cur ELSE Rotations(NextPage(cur, count), count, k - 1)

\* C11: a rotation tick makes no Display Contract call and starts no
\* refresh: it leaves the page list, the recorded interface count and every
\* refresh position alone, advances currentPage, and sets the metrics gauge
\* to the new index when a collector is attached.  The loop starts a render
\* only inside a refresh, and starts a refresh only on a refresh tick.
C11_RotationTickDoesNotRender ==
  [][/\ RotationTickStep =>
          /\ rpc' = rpc /\ ridx' = ridx /\ rstats' = rstats
          /\ loopPc = "select" /\ loopPc' = "select"
          /\ ~SchedInFlight("loop")'
          /\ pages' = pages
          /\ lastInterfaceCount' = lastInterfaceCount
          /\ currentPage' = NextPage(currentPage, PageCount)
          /\ metricsCurrentPage' =
               IF metricsCollector THEN currentPage' ELSE metricsCurrentPage
     /\ (~SchedInFlight("loop") /\ SchedInFlight("loop")') =>
          RefreshStep("loop", "clamp", "rendering")
     /\ (rpc["loop"] = "idle" /\ rpc'["loop"] # "idle") =>
          refreshTick /\ ~refreshTick' /\ rpc'["loop"] = "collecting"
    ]_vars

\* C11 witness: after a rotation reported to the metrics collector, the next
\* refresh tick is rendering the page rotated to
C11_Witness ==
  /\ metricsCollector
  /\ currentPage > 0
  /\ metricsCurrentPage = currentPage
  /\ SchedInFlight("loop")
  /\ ridx["loop"] = currentPage

\* C12: in a refresh that obtained a snapshot, the page list is rebuilt
\* exactly when the snapshot's interface count differs from
\* lastInterfaceCount (which then takes the new count); otherwise pages and
\* lastInterfaceCount stay as they were.  Such a refresh makes exactly one
\* RenderPage call, for the current page, and nothing else changes pages.
C12_RebuildIffCountChanged ==
  [][\A t \in RefreshTasks :
       /\ RefreshStep(t, "lock1", "build") =>
            /\ rchanged'[t] = (rstats[t].ifaces # lastInterfaceCount)
            /\ lastInterfaceCount' = rstats[t].ifaces
            /\ pages' = pages
       /\ RefreshStep(t, "build", "clamp") =>
            /\ pages' = IF rchanged[t] THEN BuildPages(height, rstats[t])
                        ELSE pages
            /\ lastInterfaceCount' = lastInterfaceCount
       /\ pages' # pages =>
            \E u \in RefreshTasks :
              RefreshStep(u, "build", "clamp") /\ rchanged[u]
       /\ rpc[t] = "lock1" => rpc'[t] \in {"lock1", "build"}
       /\ rpc[t] = "build" => rpc'[t] \in {"build", "clamp"}
       /\ rpc[t] = "clamp" /\ rpc'[t] # "clamp" =>
            /\ rpc'[t] = "rendering"
            /\ ridx'[t] = currentPage'
            /\ ridx'[t] < PageCount
       /\ rpc'[t] = "rendering" => rpc[t] \in {"clamp", "rendering"}
       /\ rpc[t] = "rendering" => rpc'[t] \in {"rendering", "done", "idle"}
    ]_vars

\* C12 witness: a refresh tick found the interface count unchanged and is
\* about to skip the rebuild of a page list built by an earlier refresh
C12_Witness ==
  /\ rpc["loop"] = "build"
  /\ ~rchanged["loop"]
  /\ rstats["loop"].ifaces = lastInterfaceCount
  /\ pages = BuildPages(height, rstats["loop"])

\* C13: on a list of N >= 1 pages every rotation tick finds CurrentPage()
\* inside the list and moves it to (CurrentPage() + 1) mod N without
\* touching the list, and N calls of rotatePage bring every index of the
\* list back to itself.
C13_NRotationsReturn ==
  /\ [](\A n \in 1..MaxPageCount : \A c \in 0..(n - 1) :
          /\ NextPage(c, n) = (c + 1) % n
          /\ Rotations(c, n, n) = c)
  /\ [][(RotationTickStep /\ PageCount >= 1) =>
          /\ CurrentPage < PageCount
          /\ CurrentPage' = (CurrentPage + 1) % PageCount
          /\ pages' = pages]_vars

\* C13 witness: rotation ticks have moved CurrentPage() to the last page of
\* a list of several pages and the tick that wraps it to 0 is buffered
C13_Witness ==
  /\ loopPc = "select"
  /\ PageCount >= 2
  /\ CurrentPage = PageCount - 1
  /\ rotationTick

\* ------------------------------------------------------------ driver claims
\* the positions in the log of the chunks of the call's payload
PayloadChunks ==
  {i \in 1..Len(bus) : bus[i].o.kind \in {"pixels", "data"}}

\* the last operation in the log
LastOp == bus[Len(bus)].o

\* C14 as stated: for every driver and the test double, Clear makes no bus
\* operation, during the call and up to its return, and the frame last
\* flushed to the panel is the same after Clear as before.
C14_ClearMakesNoTransfer ==
  /\ [](call.name = "Clear" => bus = <<>> /\ todo = <<>>)
  /\ [][call'.name = "Clear" => flushed' = flushed]_vars

\* C15 as stated: when a write fails inside a chunked transfer (the log ends
\* with a chunk that is not the payload's last), the call has returned the
\* error with nothing left to send, the framebuffer and the driver's fields
\* are as they were, and the driver is in the protocol state a Show starts
\* from: the bridge is not in burst mode.
C15_FailedTransferLeavesDriverIntact ==
  /\ [](result = "error" => todo = <<>>)
  /\ [][(result = "pending" /\ result' = "error") =>
          /\ bus' = bus
          /\ img' = img
          /\ drvFrame' = drvFrame]_vars
  /\ [](/\ result = "error"
        /\ bus # <<>>
        /\ LastOp.kind = "pixels"
        /\ LastOp.to < call.len
        => ~burstMode)

\* C16: the payload of a chunked transfer goes out in chunks that are
\* non-empty, at most MaxTx bytes long (4096 on SPI, 160 in a burst),
\* adjacent in the log and contiguous from offset 0; a transfer without a
\* failure sends ceil(L / MaxTx) chunks and ends at L, so L = MaxTx is one
\* chunk and L = MaxTx + 1 adds one chunk of length 1.
C16_ChunkedTransfer ==
  drv \in {"st7735", "uctronics"} =>
    /\ \A i \in PayloadChunks :
         /\ bus[i].o.to - bus[i].o.from > 0
         /\ bus[i].o.to - bus[i].o.from <= MaxTx
         /\ IF bus[i].o.from = 0
            THEN i - 1 \notin PayloadChunks
            ELSE i - 1 \in PayloadChunks /\ bus[i - 1].o.to = bus[i].o.from
    /\ (result = "ok" /\ call.name \in {"Show", "sendData"}) =>
         /\ Cardinality(PayloadChunks) = (call.len + MaxTx - 1) \div MaxTx
         /\ \E i \in PayloadChunks : bus[i].o.to = call.len
         /\ call.len = MaxTx => Cardinality(PayloadChunks) = 1
         /\ call.len = MaxTx + 1 =>
              /\ Cardinality(PayloadChunks) = 2
              /\ \E i \in PayloadChunks :
                   bus[i].o.from = MaxTx /\ bus[i].o.to = MaxTx + 1

\* C16 witness: sendData returned nil for a payload of spiMaxTx + 1 bytes,
\* sent as DC high, a full chunk and a chunk of one byte
C16_Witness ==
  /\ drv = "st7735"
  /\ call = [name |-> "sendData", len |-> spiMaxTx + 1]
  /\ result = "ok"
  /\ Len(bus) = 3
  /\ bus[3].o.to - bus[3].o.from = 1

\* C17: a Show of the bridged driver that returns nil has written, in this
\* order: the window registers (X, Y, RAMWR, sync) with the fixed offsets,
\* burst enable, the payload chunks, burst disable, sync.  In every Show,
\* complete or cut short, a payload chunk is sent only after the burst
\* enable of that Show with nothing but payload chunks in between.
C17_BridgedShowSequence ==
  (drv = "uctronics" /\ call.name = "Show") =>
    /\ result = "ok" =>
         /\ Len(bus) >= 8
         /\ bus[1].o = I2cTx("reg", 0, 3,
                <<uctronicsXCoordReg, uctronicsXStart,
                  panel.width - 1 + uctronicsXStart>>)
         /\ bus[2].o = I2cTx("reg", 0, 3,
                <<uctronicsYCoordReg, uctronicsYStart,
                  panel.height - 1 + uctronicsYStart>>)
         /\ bus[3].o = I2cTx("reg", 0, 3, <<uctronicsCharDataReg, 0, 0>>)
         /\ bus[4].o = I2cTx("reg", 0, 3, <<uctronicsSyncReg, 0, 1>>)
         /\ bus[5].o = I2cTx("reg", 0, 3, <<uctronicsBurstWriteReg, 0, 1>>)
         /\ PayloadChunks = 6..(Len(bus) - 2)
         /\ bus[Len(bus) - 1].o =
              I2cTx("reg", 0, 3, <<uctronicsBurstWriteReg, 0, 0>>)
         /\ bus[Len(bus)].o = I2cTx("reg", 0, 3, <<uctronicsSyncReg, 0, 1>>)
    /\ \A i \in PayloadChunks :
         /\ i >= 6
         /\ bus[5].o = I2cTx("reg", 0, 3, <<uctronicsBurstWriteReg, 0, 1>>)
         /\ \A k \in 6..i : k \in PayloadChunks

\* C17 witness: a Show of a drawn frame returned nil and the panel holds it
C17_Witness ==
  /\ drv = "uctronics"
  /\ call.name = "Show"
  /\ result = "ok"
  /\ img # Blank
  /\ flushed = img
  /\ ~burstMode

\* C18: in the direct-SPI driver a pixel chunk is sent only in a Show, after
\* that Show has issued CASET and RASET, each with the bounds of the full
\* frame plus the current offset, and RAMWR, with only DC-high and pixel
\* chunks after the RAMWR.
C18_WindowBeforePixels ==
  drv = "st7735" =>
    \A i \in 1..Len(bus) : bus[i].o.kind = "pixels" =>
      /\ call.name = "Show"
      /\ i >= 12
      /\ bus[2].o = SpiTx("cmd", 0, 1, <<st7735CASET>>)
      /\ bus[4].o = SpiTx("param", 0, 4,
             <<0, U8(colOffset), 0, U8(panel.width - 1 + colOffset)>>)
      /\ bus[6].o = SpiTx("cmd", 0, 1, <<st7735RASET>>)
      /\ bus[8].o = SpiTx("param", 0, 4,
             <<0, U8(rowOffset), 0, U8(panel.height - 1 + rowOffset)>>)
      /\ bus[10].o = SpiTx("cmd", 0, 1, <<st7735RAMWR>>)
      /\ \A k \in 11..i : bus[k].o.kind \in {"na", "pixels"}

\* C18 witness: a Show on a panel with RAM offsets sent a drawn frame
C18_Witness ==
  /\ drv = "st7735"
  /\ colOffset > 0
  /\ call.name = "Show"
  /\ result = "ok"
  /\ img # Blank
  /\ flushed = img

\* the log has a successful dc.Out at j that is the last one before i
DcSetBefore(i, level) ==
  \E j \in 1..(i - 1) :
    /\ bus[j].o = DcOut(level)
    /\ \A k \in (j + 1)..(i - 1) : bus[k].o.op # "dcOut"

\* C19: in the direct-SPI driver a command byte goes out with the
\* data/command line low and every other byte with it high, the level having
\* been set by a dc.Out of the same call before the transmission; when a
\* dc.Out fails the call returns without any further bus operation.
C19_DcLineMatchesTransmission ==
  /\ [](drv = "st7735" =>
          \A i \in 1..Len(bus) : bus[i].o.op = "spiTx" =>
            IF bus[i].o.kind = "cmd"
            THEN bus[i].dc = "low" /\ DcSetBefore(i, 0)
            ELSE bus[i].dc = "high" /\ DcSetBefore(i, 1))
  /\ [][(/\ result = "pending"
         /\ todo # <<>>
         /\ Head(todo).op = "dcOut"
         /\ result' = "error")
        => (todo' = <<>> /\ bus' = bus)]_vars

\* C19 witness: the first dc.Out of a Show failed and nothing was sent
C19_Witness ==
  /\ drv = "st7735"
  /\ call.name = "Show"
  /\ result = "error"
  /\ bus = <<>>
  /\ todo = <<>>

\* C20 as stated: on the 160x80 panel every rotation sets the row/column
\* exchange bit, and the window a Show issues lies inside the controller
\* RAM: with the axes exchanged CASET runs along the 162-long axis and
\* RASET along the 132-long one.
C20_Window160x80InsideRam ==
  (drv = "st7735" /\ panel = Panel(160, 80)) =>
    /\ (madctl \div madctlMV) % 2 = 1
    /\ \A i \in 3..Len(bus) : bus[i].o.kind = "param" =>
         LET lim == IF bus[i - 2].o.val = <<st7735CASET>>
                    THEN st7735RamRows ELSE st7735RamColumns
         IN /\ bus[i].o.val[2] <= bus[i].o.val[4]
            /\ bus[i].o.val[4] <= lim - 1

\* =================================================================
\* configuration, factory and constructors
\* =================================================================
\* a string is the sequence of its characters
str_ssd1306 == <<"s", "s", "d", "1", "3", "0", "6">>
str_sh1106 == <<"s", "h", "1", "1", "0", "6">>
str_ssd1327 == <<"s", "s", "d", "1", "3", "2", "7">>
str_ssd1331 == <<"s", "s", "d", "1", "3", "3", "1">>
str_st7735 == <<"s", "t", "7", "7", "3", "5">>
str_uctronics == <<"u", "c", "t", "r", "o", "n", "i", "c", "s">>

\* strings.HasPrefix
HasPrefix(s, p) == Len(s) >= Len(p) /\ SubSeq(s, 1, Len(p)) = p

\* strings.ToLower, on the letters the inputs use
LowerOf == ("S" :> "s") @@ ("D" :> "d") @@ ("T" :> "t")
ToLower(s) ==
  [i \in 1..Len(s) |-> IF s[i] \in DOMAIN LowerOf THEN LowerOf[s[i]] ELSE s[i]]

\* the specs map of GetDisplaySpec
specs ==
  { [type |-> <<"s", "s", "d", "1", "3", "0", "6">>,
     width |-> 128, height |-> 64],
    [type |-> <<"s", "s", "d", "1", "3", "0", "6", "_", "1", "2", "8", "x", "6", "4">>,
     width |-> 128, height |-> 64],
    [type |-> <<"s", "s", "d", "1", "3", "0", "6", "_", "1", "2", "8", "x", "3", "2">>,
     width |-> 128, height |-> 32],
    [type |-> <<"s", "s", "d", "1", "3", "0", "6", "_", "9", "6", "x", "1", "6">>,
     width |-> 96, height |-> 16],
    [type |-> <<"s", "h", "1", "1", "0", "6">>,
     width |-> 128, height |-> 64],
    [type |-> <<"s", "h", "1", "1", "0", "6", "_", "1", "2", "8", "x", "6", "4">>,
     width |-> 128, height |-> 64],
    [type |-> <<"s", "s", "d", "1", "3", "2", "7">>,
     width |-> 128, height |-> 128],
    [type |-> <<"s", "s", "d", "1", "3", "2", "7", "_", "1", "2", "8", "x", "1", "2", "8">>,
     width |-> 128, height |-> 128],
    [type |-> <<"s", "s", "d", "1", "3", "2", "7", "_", "9", "6", "x", "9", "6">>,
     width |-> 96, height |-> 96],
    [type |-> <<"s", "s", "d", "1", "3", "3", "1">>,
     width |-> 96, height |-> 64],
    [type |-> <<"s", "s", "d", "1", "3", "3", "1", "_", "9", "6", "x", "6", "4">>,
     width |-> 96, height |-> 64],
    [type |-> <<"s", "t", "7", "7", "3", "5">>,
     width |-> 128, height |-> 160],
    [type |-> <<"s", "t", "7", "7", "3", "5", "_", "1", "2", "8", "x", "1", "6", "0">>,
     width |-> 128, height |-> 160],
    [type |-> <<"s", "t", "7", "7", "3", "5", "_", "1", "2", "8", "x", "1", "2", "8">>,
     width |-> 128, height |-> 128],
    [type |-> <<"s", "t", "7", "7", "3", "5", "_", "1", "6", "0", "x", "8", "0">>,
     width |-> 160, height |-> 80],
    [type |-> <<"u", "c", "t", "r", "o", "n", "i", "c", "s", "_", "c", "o", "l", "o", "u", "r">>,
     width |-> 160, height |-> 80] }

\* GetDisplaySpec: exact lookup of the type
GetDisplaySpec(t) ==
  IF \E e \in specs : e.type = t
  THEN LET e == CHOOSE e \in specs : e.type = t
       IN [ok |-> TRUE, width |-> e.width, height |-> e.height]
  ELSE [ok |-> FALSE, width |-> 0, height |-> 0]

\* type strings GetDisplaySpec does not know: other case, a proper prefix of
\* a family name, a known name with a suffix
OtherTypes ==
  { <<>>,
    <<"u", "n", "k", "n", "o", "w", "n">>,
    <<"S", "S", "D", "1", "3", "0", "6">>,
    <<"s", "s", "d", "1", "3">>,
    <<"S", "T", "7", "7", "3", "5", "_", "1", "6", "0", "x", "8", "0">>,
    <<"s", "t", "7", "7", "3", "5", "_", "1", "6", "0", "x", "8", "0", "_", "u", "c", "t", "r", "o", "n", "i", "c", "s">>,
    <<"u", "c", "t", "r", "o", "n", "i", "c", "s">>,
    <<"s", "h", "1", "1", "0", "6", "x">>,
    <<"S", "s", "d", "1", "3", "3", "1">> }

TypeStrings == {e.type : e \in specs} \cup OtherTypes

\* the values the bus fields of DisplayConfig are drawn from: the classes
\* of strings validateDisplay and parseI2CAddr tell apart
BusPaths == {"", "relative", "/absolute"}
Addresses == {"", "3C", "0xZZ", "0x1FF", "0x3C"}

\* the field combinations tried: all well-formed, and one field off at a time
Wirings ==
  {[i2cBus |-> "/absolute", i2cAddress |-> "0x3C", spiBus |-> "SPI0.0",
    dcPin |-> "GPIO24"]}
  \cup {[i2cBus |-> b, i2cAddress |-> "0x3C", spiBus |-> "SPI0.0",
         dcPin |-> "GPIO24"] : b \in BusPaths}
  \cup {[i2cBus |-> "/absolute", i2cAddress |-> a, spiBus |-> "SPI0.0",
         dcPin |-> "GPIO24"] : a \in Addresses}
  \cup {[i2cBus |-> "/absolute", i2cAddress |-> "0x3C", spiBus |-> "",
         dcPin |-> "GPIO24"],
        [i2cBus |-> "/absolute", i2cAddress |-> "0x3C", spiBus |-> "SPI0.0",
         dcPin |-> ""]}

DisplayConfig(t, w, h, r, wiring, rst) ==
  [type |-> t, width |-> w, height |-> h, rotation |-> r,
   i2cBus |-> wiring.i2cBus, i2cAddress |-> wiring.i2cAddress,
   spiBus |-> wiring.spiBus, dcPin |-> wiring.dcPin, rstPin |-> rst]

Rotations0 == -1..4
RawDims == {<<0, 0>>, <<128, 64>>, <<160, 80>>, <<128, -1>>}

\* the configurations a file can hold
RawConfigs ==
  {DisplayConfig(t, wh[1], wh[2], r, w, rst) :
     t \in TypeStrings, wh \in RawDims, r \in Rotations0, w \in Wirings,
     rst \in {"", "GPIO25"}}

\* DisplayConfig.IsI2C, DisplayConfig.IsSPI
IsI2C(c) ==
  LET t == ToLower(c.type)
  IN \/ HasPrefix(t, str_ssd1306)
     \/ HasPrefix(t, str_sh1106)
     \/ HasPrefix(t, str_ssd1327)
     \/ HasPrefix(t, str_ssd1331)
     \/ HasPrefix(t, str_uctronics)
IsSPI(c) == HasPrefix(ToLower(c.type), str_st7735)

\* DisplayConfig.ApplyDisplayDefaults
ApplyDisplayDefaults(c) ==
  LET t == IF c.type = <<>> THEN str_ssd1306 ELSE c.type
      spec == GetDisplaySpec(t)
      c1 == [c EXCEPT !.type = t]
  IN IF ~spec.ok THEN c1
     ELSE LET c2 == [c1 EXCEPT !.width = spec.width, !.height = spec.height]
          IN IF HasPrefix(ToLower(t), str_uctronics)
             THEN [c2 EXCEPT !.i2cAddress = "0x18",
                             !.i2cBus = IF c.i2cBus = "" THEN "/absolute"
                                        ELSE c.i2cBus]
             ELSE c2

\* strconv.ParseUint(addr[2:], 16, 8) of validateDisplay succeeds
HexByte(a) == a \in {"0x3C", "0x18"}
\* parseI2CAddr succeeds: hex digits in 16 bits, with or without 0x
HexWord(a) == a \in {"3C", "0x1FF", "0x3C", "0x18"}

\* Config.validateDisplay with the type defaulted: the error it returns
validateDisplay(c) ==
  LET spec == GetDisplaySpec(c.type)
  IN CASE ~spec.ok -> "type"
       [] IsI2C(c) /\ c.i2cBus = "" -> "i2cBusEmpty"
       [] IsI2C(c) /\ c.i2cBus # "/absolute" -> "i2cBusRelative"
       [] IsI2C(c) /\ c.i2cAddress = "" -> "i2cAddressEmpty"
       [] IsI2C(c) /\ c.i2cAddress = "3C" -> "i2cAddressNotHex"
       [] IsI2C(c) /\ ~HexByte(c.i2cAddress) -> "i2cAddressInvalid"
       [] IsSPI(c) /\ c.spiBus = "" -> "spiBusEmpty"
       [] IsSPI(c) /\ c.dcPin = "" -> "dcPinEmpty"
       [] c.width <= 0 -> "width"
       [] c.height <= 0 -> "height"
       [] c.width # spec.width \/ c.height # spec.height -> "dimensions"
       [] c.rotation < 0 \/ c.rotation > 3 -> "rotation"
       [] OTHER -> "none"

\* the prefixes of supportedButNeedDrivers
supportedButNeedDrivers == {str_sh1106, str_ssd1327, str_ssd1331}

\* NewDisplay routes the bridged driver's types to its constructor
NewDisplayUCTRONICS(displayType) == HasPrefix(displayType, str_uctronics)

\* NewDisplay: the constructor it delegates to, or the error it returns
NewDisplay_NoneImplemented(c) ==
  LET displayType == ToLower(c.type)
  IN IF HasPrefix(displayType, str_ssd1306) THEN "ssd1306" ELSE "unsupported"

NewDisplay(c) ==
  LET displayType == ToLower(c.type)
  IN CASE HasPrefix(displayType, str_ssd1306) -> "ssd1306"
       [] HasPrefix(displayType, str_st7735) -> "st7735"
       [] NewDisplayUCTRONICS(displayType) -> "uctronics"
       [] \E p \in supportedButNeedDrivers : HasPrefix(displayType, p) ->
            "notImplemented"
       [] OTHER -> "unsupported"

Constructors == {"ssd1306", "st7735", "uctronics"}

\* ------------------------------------------------------------- actions
otherVars == <<schedVars, drvVars, drawVars, libVars>>

InitBuild ==
  /\ SchedNone
  /\ DrvNone
  /\ DrawNone
  /\ cfg \in RawConfigs
  /\ buildPc = "loaded"
  /\ validated = FALSE
  /\ ctor = "none"
  /\ port = "none"
  /\ newDrv = NoDriver
  /\ disp = NoDriver
  /\ buildErr = "none"
  /\ mgrCfg = NoConfig
  /\ reloadLog = "none"

\* Load: cfg.Display.ApplyDisplayDefaults() after the file is parsed
ApplyDefaults ==
  /\ buildPc = "loaded"
  /\ cfg' = ApplyDisplayDefaults(cfg)
  /\ buildPc' = "defaulted"
  /\ UNCHANGED <<validated, ctor, port, newDrv, disp, buildErr, mgrCfg,
                 reloadLog, otherVars>>

\* cfg.Validate(), of a loaded configuration or of one built by hand
ValidateCall ==
  /\ buildPc \in {"loaded", "defaulted"}
  /\ LET c == [cfg EXCEPT !.type = IF cfg.type = <<>> THEN str_ssd1306
                                   ELSE cfg.type]
         err == validateDisplay(c)
     IN /\ cfg' = c
        /\ buildErr' = err
        /\ validated' = (err = "none")
        /\ buildPc' = IF err = "none" THEN "validated" ELSE "rejected"
  /\ UNCHANGED <<ctor, port, newDrv, disp, mgrCfg, reloadLog, otherVars>>

\* main with -mock: NewMockDisplay(cfg.Display.Width, cfg.Display.Height)
MockDriver(c) ==
  [family |-> "mock", width |-> c.width, height |-> c.height,
   rotation |-> 0, done |-> {}]

\* display.NewDisplay(&cfg.Display), by main after validation or directly
NewDisplayCall ==
  /\ buildPc \in {"loaded", "defaulted", "validated"}
  /\ LET route == NewDisplay(cfg)
     IN IF route \in Constructors
        THEN /\ ctor' = route
             /\ buildPc' = "hostInit"
             /\ UNCHANGED buildErr
        ELSE /\ ctor' = "none"
             /\ buildPc' = "built"
             /\ buildErr' = route
  /\ UNCHANGED <<cfg, validated, port, newDrv, disp, mgrCfg, reloadLog,
                 otherVars>>

\* a constructor returns nil and an error; close tells whether it calls
\* Close on the port first (a failing Close is only logged)
CtorReturnError_KeepsPort(err, close) ==
  /\ buildErr' = err
  /\ port' = port
  /\ newDrv' = NoDriver
  /\ disp' = NoDriver
  /\ buildPc' = "built"

CtorReturnError(err, close) ==
  /\ buildErr' = err
  /\ port' = IF close THEN "closed" ELSE port
  /\ newDrv' = NoDriver
  /\ disp' = NoDriver
  /\ buildPc' = "built"

\* a step of a constructor succeeded
CtorAdvance(next) ==
  /\ buildPc' = next
  /\ UNCHANGED <<buildErr, disp>>

\* the struct literal of a constructor
DriverStruct(family, c) ==
  [family |-> family, width |-> c.width, height |-> c.height,
   rotation |-> c.rotation, done |-> {}]

Did(step) == [newDrv EXCEPT !.done = @ \cup {step}]

ST7735Complete == {"hardwareReset", "initSequence", "applyRotation"}

\* NewST7735Display, one step at a time
NewST7735Display ==
  /\ ctor = "st7735"
  /\ \/ /\ buildPc = "hostInit"
        /\ \/ CtorAdvance("open") /\ UNCHANGED <<port, newDrv>>
           \/ CtorReturnError("hostInit", FALSE)
     \/ /\ buildPc = "open"
        /\ \/ CtorAdvance("connect") /\ port' = "open" /\ UNCHANGED newDrv
           \/ CtorReturnError("open", FALSE)
     \/ /\ buildPc = "connect"
        /\ \/ CtorAdvance("dcPin") /\ UNCHANGED <<port, newDrv>>
           \/ CtorReturnError("connect", TRUE)
     \/ /\ buildPc = "dcPin"
        /\ \/ CtorAdvance("rstPin") /\ UNCHANGED <<port, newDrv>>
           \/ CtorReturnError("dcPin", TRUE)
     \/ /\ buildPc = "rstPin"
        /\ \/ /\ CtorAdvance("hardwareReset")
              /\ newDrv' = DriverStruct("st7735", cfg)
              /\ UNCHANGED port
           \/ cfg.rstPin # "" /\ CtorReturnError("rstPin", TRUE)
     \/ /\ buildPc = "hardwareReset"
        /\ \/ /\ CtorAdvance("initSequence")
              /\ newDrv' = Did("hardwareReset")
              /\ UNCHANGED port
           \/ cfg.rstPin # "" /\ CtorReturnError("hardwareReset", TRUE)
     \/ /\ buildPc = "initSequence"
        /\ \/ /\ CtorAdvance("applyRotation")
              /\ newDrv' = Did("initSequence")
              /\ UNCHANGED port
           \/ CtorReturnError("initSequence", TRUE)
     \/ /\ buildPc = "applyRotation"
        /\ IF cfg.rotation < 0 \/ cfg.rotation > 3
           THEN CtorReturnError("st7735Rotation", TRUE)
           ELSE \/ /\ newDrv' = Did("applyRotation")
                   /\ disp' = newDrv'
                   /\ buildPc' = "built"
                   /\ UNCHANGED <<buildErr, port>>
                \/ CtorReturnError("madctl", TRUE)
  /\ UNCHANGED <<cfg, validated, ctor, mgrCfg, reloadLog, otherVars>>

\* NewSSD1306Display, one step at a time; no path closes the bus
ssd1306RotationOk_Any(r) == TRUE

\* the rotations NewSSD1306Display accepts: 0 and 2 (180 degrees)
ssd1306RotationOk(r) == ~(r # 0 /\ r # 2)

NewSSD1306Display ==
  /\ ctor = "ssd1306"
  /\ \/ /\ buildPc = "hostInit"
        /\ \/ CtorAdvance("open") /\ UNCHANGED <<port, newDrv>>
           \/ CtorReturnError("hostInit", FALSE)
     \/ /\ buildPc = "open"
        /\ \/ CtorAdvance("rotationCheck") /\ port' = "open"
                /\ UNCHANGED newDrv
           \/ CtorReturnError("open", FALSE)
     \/ /\ buildPc = "rotationCheck"
        /\ IF ~ssd1306RotationOk(cfg.rotation)
           THEN CtorReturnError("ssd1306Rotation", FALSE)
           ELSE CtorAdvance("newI2C") /\ UNCHANGED <<port, newDrv>>
     \/ /\ buildPc = "newI2C"
        /\ \/ /\ newDrv' = [DriverStruct("ssd1306", cfg) EXCEPT
                              !.done = {"dev"}]
              /\ disp' = newDrv'
              /\ buildPc' = "built"
              /\ UNCHANGED <<buildErr, port>>
           \/ CtorReturnError("newI2C", FALSE)
  /\ UNCHANGED <<cfg, validated, ctor, mgrCfg, reloadLog, otherVars>>

\* NewUCTRONICSDisplay, one step at a time; it takes no rotation
NewUCTRONICSDisplay ==
  /\ ctor = "uctronics"
  /\ \/ /\ buildPc = "hostInit"
        /\ \/ CtorAdvance("open") /\ UNCHANGED <<port, newDrv>>
           \/ CtorReturnError("hostInit", FALSE)
     \/ /\ buildPc = "open"
        /\ \/ CtorAdvance("parseI2CAddr") /\ port' = "open"
                /\ UNCHANGED newDrv
           \/ CtorReturnError("open", FALSE)
     \/ /\ buildPc = "parseI2CAddr"
        /\ IF HexWord(cfg.i2cAddress)
           THEN /\ newDrv' = [DriverStruct("uctronics", cfg) EXCEPT
                                !.rotation = 0, !.done = {"addr"}]
                /\ disp' = newDrv'
                /\ buildPc' = "built"
                /\ UNCHANGED <<buildErr, port>>
           ELSE CtorReturnError("parseI2CAddr", TRUE)
  /\ UNCHANGED <<cfg, validated, ctor, mgrCfg, reloadLog, otherVars>>

\* main: with -mock, or when NewDisplay failed, the mock display is used;
\* then the renderer and the Manager are created with cfg
MainUseMock ==
  /\ buildPc = "validated"
  /\ disp' = MockDriver(cfg)
  /\ mgrCfg' = cfg
  /\ buildPc' = "running"
  /\ UNCHANGED <<cfg, validated, ctor, port, newDrv, buildErr, reloadLog,
                 otherVars>>

MainStart ==
  /\ buildPc = "built"
  /\ validated
  /\ disp' = IF buildErr # "none" THEN MockDriver(cfg) ELSE disp
  /\ mgrCfg' = cfg
  /\ buildPc' = "running"
  /\ UNCHANGED <<cfg, validated, ctor, port, newDrv, buildErr, reloadLog,
                 otherVars>>

\* the files a SIGHUP finds: the current one, or another type or rotation,
\* valid or not
ReloadTypes ==
  {str_ssd1306, str_st7735 \o <<"_", "1", "6", "0", "x", "8", "0">>,
   <<"u", "n", "k", "n", "o", "w", "n">>}
ReloadConfigs ==
  {DisplayConfig(t, 0, 0, r, CHOOSE w \in Wirings :
                               /\ w.i2cBus = "/absolute"
                               /\ w.i2cAddress = "0x3C"
                               /\ w.spiBus = "SPI0.0"
                               /\ w.dcPin = "GPIO24", "") :
     t \in ReloadTypes, r \in {0, 2, 4}}

\* main on SIGHUP: LoadWithPriority (read, defaults, Validate), Validate
\* again, the display comparison, cfg = newCfg
Reload_Reinit ==
  /\ buildPc = "running"
  /\ \E raw \in ReloadConfigs :
       LET newCfg == ApplyDisplayDefaults(raw)
       IN /\ validateDisplay(newCfg) = "none"
          /\ newCfg # cfg
          /\ reloadLog' = "reloaded"
          /\ disp' = [disp EXCEPT !.rotation = newCfg.rotation]
          /\ cfg' = newCfg
  /\ UNCHANGED <<buildPc, validated, ctor, port, newDrv, buildErr, mgrCfg,
                 otherVars>>

Reload ==
  /\ buildPc = "running"
  /\ \/ /\ reloadLog' = "keptCurrent"
        /\ UNCHANGED cfg
     \/ \E raw \in ReloadConfigs :
          LET newCfg == ApplyDisplayDefaults(raw)
          IN IF validateDisplay(newCfg) # "none"
             THEN /\ reloadLog' = "keptCurrent"
                  /\ UNCHANGED cfg
             ELSE /\ reloadLog' = IF newCfg # cfg THEN "restartRequired"
                                  ELSE "reloaded"
                  /\ cfg' = newCfg
  /\ UNCHANGED <<buildPc, validated, ctor, port, newDrv, disp, buildErr,
                 mgrCfg, otherVars>>

NextBuild ==
  \/ ApplyDefaults
  \/ ValidateCall
  \/ NewDisplayCall
  \/ NewST7735Display
  \/ NewSSD1306Display
  \/ NewUCTRONICSDisplay
  \/ MainUseMock
  \/ MainStart
  \/ Reload

SpecBuild == InitBuild /\ [][NextBuild]_vars

\* =================================================================
\* drawing operations: the Test Double, the mono-OLED driver and the
\* colour drivers draw the same calls into their framebuffers
\* =================================================================
MaxDraws == 2

\* scaled-down panels: heights of whole 8-pixel pages, as every SSD1306
\* type has, and one height that is not
OLEDGeoms == {[w |-> 2, h |-> 8], [w |-> 3, h |-> 16]}
Geoms == OLEDGeoms \cup {[w |-> 3, h |-> 12]}

\* image.Rect(0, 0, width, height)
Points == (0..(geom.w - 1)) \X (0..(geom.h - 1))
InRect(x, y) == x >= 0 /\ x < geom.w /\ y >= 0 /\ y < geom.h

\* bit i of byte b; b |= 1 << i; b &^= 1 << i
Bit(b, i) == (b \div (2 ^ i)) % 2 = 1
SetBit(b, i) == IF Bit(b, i) THEN b ELSE b + 2 ^ i
ClearBit(b, i) == IF Bit(b, i) THEN b - 2 ^ i ELSE b

\* NewMockDisplay: make([]byte, width*height/8)
NewMockBuffer(g) == [i \in 0..((g.w * g.h) \div 8 - 1) |-> 0]
BufLen(buf) == Cardinality(DOMAIN buf)

\* buf[byteIdx] gets or loses bit bitIdx; an index outside the slice panics
Store(m, byteIdx, bitIdx, on) ==
  IF byteIdx \notin DOMAIN m.buf
  THEN [m EXCEPT !.panic = TRUE]
  ELSE [m EXCEPT !.buf[byteIdx] = IF on THEN SetBit(@, bitIdx)
                                  ELSE ClearBit(@, bitIdx)]

\* MockDisplay.setPixel
setPixel_NoBounds(m, x, y, on) ==
  LET byteIdx == x + (y \div 8) * geom.w
      bitIdx == y % 8
  IN Store(m, byteIdx, bitIdx, on)

setPixel(m, x, y, on) ==
  IF x < 0 \/ x >= geom.w \/ y < 0 \/ y >= geom.h
  THEN m
  ELSE LET byteIdx == x + (y \div 8) * geom.w
           bitIdx == y % 8
       IN IF byteIdx >= BufLen(m.buf) THEN m
          ELSE Store(m, byteIdx, bitIdx, on)

\* MockDisplay.getPixel
getPixel(buf, x, y) ==
  IF x < 0 \/ x >= geom.w \/ y < 0 \/ y >= geom.h
  THEN FALSE
  ELSE LET byteIdx == x + (y \div 8) * geom.w
           bitIdx == y % 8
       IN IF byteIdx >= BufLen(buf) THEN FALSE
          ELSE Bit(buf[byteIdx], bitIdx)

\* a pixel write a drawing call makes
Write(x, y, v) == [x |-> x, y |-> y, v |-> v]

\* the source images of DrawImage: bounds and the colour at each offset;
\* "white" is bright and opaque, "dim" opaque and dark, "clear" transparent
Images ==
  {[w |-> 1, h |-> 1, at |-> [p \in {<<0, 0>>} |-> "dim"]],
   [w |-> 2, h |-> 2,
    at |-> [p \in (0..1) \X (0..1) |->
              IF p[1] = p[2] THEN "white" ELSE "clear"]]}

\* a drawing call: its name and arguments
DrawArgs(name, x, y, w, h, on, image) ==
  [name |-> name, x |-> x, y |-> y, w |-> w, h |-> h, on |-> on,
   image |-> image]
NoImage == [w |-> 0, h |-> 0, at |-> <<>>]

\* the cells the loops "for dy < h && y+dy < height, for dx < w && x+dx <
\* width" visit
LoopCells(x, y, w, h) ==
  {c \in (0..(w - 1)) \X (0..(h - 1)) : x + c[1] < geom.w /\ y + c[2] < geom.h}

\* the writes of a rectangle outline, as MockDisplay.DrawRect makes them
mockOutline_Filled(x, y, w, h) ==
  {Write(x + c[1], y + c[2], "on") : c \in LoopCells(x, y, w, h)}

mockOutline(x, y, w, h) ==
  {Write(x + i, y, "on") : i \in {i \in 0..(w - 1) : x + i < geom.w}}
  \cup {Write(x + i, y + h - 1, "on") :
          i \in {i \in 0..(w - 1) : x + i < geom.w /\ y + h - 1 < geom.h}}
  \cup {Write(x, y + i, "on") : i \in {i \in 0..(h - 1) : y + i < geom.h}}
  \cup {Write(x + w - 1, y + i, "on") :
          i \in {i \in 0..(h - 1) : y + i < geom.h /\ x + w - 1 < geom.w}}

\* the setPixel calls of the MockDisplay drawing methods
MockWrites(a) ==
  CASE a.name = "DrawPixel" ->
         {Write(a.x, a.y, IF a.on THEN "on" ELSE "off")}
    [] a.name = "DrawLine" ->
         {Write(a.x + i, a.y, "on") :
            i \in {i \in 0..(a.w - 1) : a.x + i < geom.w}}
    [] a.name = "DrawRect" ->
         IF a.on
         THEN {Write(a.x + c[1], a.y + c[2], "on") :
                 c \in LoopCells(a.x, a.y, a.w, a.h)}
         ELSE mockOutline(a.x, a.y, a.w, a.h)
    [] a.name = "DrawImage" ->
         {Write(a.x + c[1], a.y + c[2],
                IF a.image.at[c] = "white" THEN "on" ELSE "off") :
            c \in LoopCells(a.x, a.y, a.image.w, a.image.h)}
    [] a.name = "DrawText" ->
         LET charWidth == a.h \div 2
         IN UNION {{Write(a.x + i * charWidth + c[1], a.y + c[2], "on") :
                      c \in {c \in (0..(charWidth - 1)) \X (0..(a.h - 1)) :
                               /\ a.x + i * charWidth + c[1] < geom.w
                               /\ a.y + c[2] < geom.h}} :
                   i \in {i \in 0..(a.w - 1) : a.x + i * charWidth < geom.w}}
    [] OTHER -> {}

\* the writes of a rectangle outline, as SSD1306Display.DrawRect and
\* drawRectNRGBA make them
realOutline(x, y, w, h, v) ==
  {Write(x + i, y, v) :
     i \in {i \in 0..(w - 1) : x + i < geom.w /\ x + i >= 0 /\ y >= 0}}
  \cup {Write(x + i, y + h - 1, v) :
          i \in {i \in 0..(w - 1) :
                   /\ x + i < geom.w
                   /\ x + i >= 0 /\ y + h - 1 >= 0 /\ y + h - 1 < geom.h}}
  \cup {Write(x, y + i, v) :
          i \in {i \in 0..(h - 1) : y + i < geom.h /\ x >= 0 /\ y + i >= 0}}
  \cup {Write(x + w - 1, y + i, v) :
          i \in {i \in 0..(h - 1) :
                   /\ y + i < geom.h
                   /\ x + w - 1 >= 0 /\ x + w - 1 < geom.w /\ y + i >= 0}}

\* DrawRect of the real drivers
realRect(x, y, w, h, fill, v) ==
  IF fill
  THEN {Write(x + c[1], y + c[2], v) :
          c \in {c \in LoopCells(x, y, w, h) : x + c[1] >= 0 /\ y + c[2] >= 0}}
  ELSE realOutline(x, y, w, h, v)

\* DrawText of the real drivers: an outline of charWidth-1 by size for
\* each character
realText(x, y, n, size, v) ==
  LET charWidth == size \div 2
  IN UNION {realRect(x + i * charWidth, y, charWidth - 1, size, FALSE, v) :
              i \in {i \in 0..(n - 1) : x + i * charWidth < geom.w}}

\* the SetGray calls of the SSD1306Display drawing methods
SSD1306Writes(a) ==
  CASE a.name = "DrawPixel" ->
         IF a.x < 0 \/ a.x >= geom.w \/ a.y < 0 \/ a.y >= geom.h THEN {}
         ELSE {Write(a.x, a.y, IF a.on THEN "on" ELSE "off")}
    [] a.name = "DrawLine" ->
         {Write(a.x + i, a.y, "on") :
            i \in {i \in 0..(a.w - 1) :
                     /\ a.x + i < geom.w
                     /\ a.x + i >= 0 /\ a.y >= 0 /\ a.y < geom.h}}
    [] a.name = "DrawRect" -> realRect(a.x, a.y, a.w, a.h, a.on, "on")
    [] a.name = "DrawImage" ->
         {Write(a.x + c[1], a.y + c[2],
                IF a.image.at[c] = "white" THEN "on" ELSE "off") :
            c \in {c \in LoopCells(a.x, a.y, a.image.w, a.image.h) :
                     a.x + c[1] >= 0 /\ a.y + c[2] >= 0}}
    [] a.name = "DrawText" -> realText(a.x, a.y, a.w, a.h, "on")
    [] OTHER -> {}

\* the SetNRGBA calls of the ST7735Display and UCTRONICSDisplay drawing
\* methods; DrawImage keeps the colour of an opaque source pixel
NRGBAWrites(a) ==
  CASE a.name = "DrawPixel" ->
         IF a.x < 0 \/ a.x >= geom.w \/ a.y < 0 \/ a.y >= geom.h THEN {}
         ELSE {Write(a.x, a.y, IF a.on THEN "white" ELSE "black")}
    [] a.name = "DrawLine" ->
         {Write(a.x + i, a.y, "white") :
            i \in {i \in 0..(a.w - 1) :
                     /\ a.x + i < geom.w
                     /\ a.x + i >= 0 /\ a.y >= 0 /\ a.y < geom.h}}
    [] a.name = "DrawRect" -> realRect(a.x, a.y, a.w, a.h, a.on, "white")
    [] a.name = "DrawImage" ->
         {Write(a.x + c[1], a.y + c[2],
                IF a.image.at[c] = "clear" THEN "black" ELSE a.image.at[c]) :
            c \in {c \in LoopCells(a.x, a.y, a.image.w, a.image.h) :
                     a.x + c[1] >= 0 /\ a.y + c[2] >= 0}}
    [] a.name = "DrawText" -> realText(a.x, a.y, a.w, a.h, "white")
    [] OTHER -> {}

\* the setPixel calls applied to the buffer, one after the other
RECURSIVE ApplyMock(_, _)
ApplyMock(m, ws) ==
  IF ws = {} THEN m
  ELSE LET w == CHOOSE w \in ws : TRUE
       IN ApplyMock(setPixel(m, w.x, w.y, w.v = "on"), ws \ {w})

\* image.Gray.SetGray and image.NRGBA.SetNRGBA: nothing outside the
\* rectangle is stored
SetGray(g, ws) ==
  (g \ {<<w.x, w.y>> : w \in {w \in ws : w.v = "off"}})
  \cup {<<w.x, w.y>> : w \in {w \in ws : w.v = "on" /\ InRect(w.x, w.y)}}
SetNRGBA(f, ws) ==
  [p \in DOMAIN f |->
     IF \E w \in ws : <<w.x, w.y>> = p
     THEN (CHOOSE w \in ws : <<w.x, w.y>> = p).v
     ELSE f[p]]

\* the pixels the Test Double reports lit
MockLit == {p \in Points : getPixel(mbuf, p[1], p[2])}

\* SSD1306Display.GetBuffer: the framebuffer packed into width*height/8
\* bytes, without a check of the index
RECURSIVE PackGray(_, _)
PackGray(m, ps) ==
  IF ps = {} THEN m
  ELSE LET p == CHOOSE p \in ps : TRUE
       IN PackGray(Store(m, p[1] + (p[2] \div 8) * geom.w, p[2] % 8, TRUE),
                   ps \ {p})
SSD1306GetBuffer == PackGray([buf |-> NewMockBuffer(geom), panic |-> FALSE], gray)

\* coordinates and sizes around the edges of the panel
XS == {-1, 0, geom.w - 1, geom.w}
YS == {-1, 0, 7, 8, geom.h - 1, geom.h}

InitDraw ==
  /\ SchedNone
  /\ DrvNone
  /\ BuildNone
  /\ geom \in Geoms
  /\ mbuf = NewMockBuffer(geom)
  /\ gray = {}
  /\ nrgba = [p \in (0..(geom.w - 1)) \X (0..(geom.h - 1)) |-> "black"]
  /\ drawOp = NoDraw
  /\ drawPanic = FALSE
  /\ mock = NoMock
  /\ rpage = [t \in RefreshTasks |-> NoPage]
  /\ saver = NoSaver
  /\ LibNone

\* a drawing call on the three displays; drawOp keeps the call, how many
\* calls were made and how many of them were DrawText
Draw(a) ==
  /\ drawOp.n < MaxDraws
  /\ LET m == ApplyMock([buf |-> mbuf, panic |-> FALSE], MockWrites(a))
     IN /\ mbuf' = m.buf
        /\ drawPanic' = (drawPanic \/ m.panic)
  /\ gray' = SetGray(gray, SSD1306Writes(a))
  /\ nrgba' = SetNRGBA(nrgba, NRGBAWrites(a))
  /\ drawOp' = [name |-> a.name, x |-> a.x, y |-> a.y, w |-> a.w,
                h |-> a.h, on |-> a.on, ret |-> "nil", n |-> drawOp.n + 1,
                texts |-> drawOp.texts + IF a.name = "DrawText" THEN 1 ELSE 0]
  /\ UNCHANGED <<geom, mock, rpage, saver, libVars, schedVars, drvVars,
                 buildVars>>

DrawPixel ==
  \E x \in XS, y \in YS, on \in BOOLEAN :
    Draw(DrawArgs("DrawPixel", x, y, 1, 1, on, NoImage))

DrawLine ==
  \E x \in XS, y \in YS, w \in {1, geom.w + 2} :
    Draw(DrawArgs("DrawLine", x, y, w, 1, TRUE, NoImage))

DrawRect ==
  \E x \in XS, y \in YS, w \in {1, 3}, h \in {1, 3}, fill \in BOOLEAN :
    Draw(DrawArgs("DrawRect", x, y, w, h, fill, NoImage))

DrawImage ==
  \E x \in XS, y \in YS, image \in Images :
    Draw(DrawArgs("DrawImage", x, y, image.w, image.h, TRUE, image))

\* DrawText of a string of w characters at size h
DrawText ==
  \E x \in XS, y \in YS, size \in {2, 4} :
    Draw(DrawArgs("DrawText", x, y, 2, size, TRUE, NoImage))

\* Clear zeroes the three framebuffers
Clear ==
  /\ drawOp.n < MaxDraws
  /\ mbuf' = [i \in DOMAIN mbuf |-> 0]
  /\ gray' = {}
  /\ nrgba' = [p \in DOMAIN nrgba |-> "black"]
  /\ drawOp' = [NoDraw EXCEPT !.name = "Clear", !.ret = "nil",
                              !.n = drawOp.n + 1, !.texts = drawOp.texts]
  /\ UNCHANGED <<geom, drawPanic, mock, rpage, saver, libVars, schedVars, drvVars,
                 buildVars>>

NextDraw ==
  \/ DrawPixel
  \/ DrawLine
  \/ DrawRect
  \/ DrawImage
  \/ DrawText
  \/ Clear

SpecDraw == InitDraw /\ [][NextDraw]_vars

\* =================================================================
\* the Test Double's fault-injection switch
\* =================================================================
MaxCalls == 4

\* the methods of the Display interface that return an error, and the
\* two that return a value only
FallibleCalls == {"Init", "Clear", "DrawText", "DrawLine", "DrawPixel",
                  "DrawRect", "DrawImage", "Show", "Close", "SetBrightness"}
ValueCalls == {"GetBounds", "GetBuffer"}

\* the messages SetError is called with
ErrorMsgs == {"", "test error", "bus error"}

\* a nil error
NoError == [failed |-> FALSE, msg |-> ""]

\* MockDisplay.checkError: fmt.Errorf("%s", m.errorMsg) while the switch
\* is on
checkError_NoMessage ==
  IF shouldError THEN [failed |-> TRUE, msg |-> ""] ELSE NoError

checkError ==
  IF shouldError THEN [failed |-> TRUE, msg |-> mock.errorMsg] ELSE NoError

\* one drawing call of each kind, on the 2 by 8 panel
MockDrawArgs ==
  {DrawArgs("DrawPixel", 1, 7, 1, 1, TRUE, NoImage),
   DrawArgs("DrawLine", -1, 0, 4, 1, TRUE, NoImage),
   DrawArgs("DrawRect", 0, 6, 3, 3, FALSE, NoImage),
   DrawArgs("DrawText", 0, 0, 2, 2, TRUE, NoImage)}
  \cup {DrawArgs("DrawImage", 1, 1, i.w, i.h, TRUE, i) : i \in Images}

InitMock ==
  /\ SchedNone
  /\ DrvNone
  /\ BuildNone
  /\ geom = [w |-> 2, h |-> 8]
  /\ mbuf = NewMockBuffer(geom)
  /\ gray = {}
  /\ nrgba = {}
  /\ drawOp = NoDraw
  /\ drawPanic = FALSE
  /\ mock = NoMock
  /\ rpage = [t \in RefreshTasks |-> NoPage]
  /\ saver = NoSaver
  /\ LibNone

\* what every method leaves alone
MockFrame ==
  <<geom, gray, nrgba, drawOp, drawPanic, rpage, saver, libVars, schedVars,
    buildVars, drv, panel,
    rotation, madctl, colOffset, rowOffset, img, dc, call, todo, bus, result,
    burstMode, flushed>>

\* the method was entered: recordCall appends to the call log of the
\* methods that keep one, and the method returns err
Called(name, err, initialized) ==
  /\ mock.steps < MaxCalls
  /\ mock' = [mock EXCEPT !.steps = @ + 1,
                          !.calls = IF name \in FallibleCalls THEN @ + 1 ELSE @,
                          !.last = name,
                          !.ret = err,
                          !.failures = IF err.failed THEN @ + 1 ELSE @,
                          !.initialized = initialized]
  /\ UNCHANGED MockFrame

\* MockDisplay.SetError
MockSetError ==
  \E on \in BOOLEAN, msg \in ErrorMsgs :
    /\ mock.steps < MaxCalls
    /\ shouldError' = on
    /\ mock' = [mock EXCEPT !.steps = @ + 1,
                            !.errorMsg = msg,
                            !.last = "SetError",
                            !.ret = NoError,
                            !.armed = [on |-> on, msg |-> msg]]
    /\ UNCHANGED <<mbuf, MockFrame>>

\* MockDisplay.Init
MockInit ==
  /\ Called("Init", checkError, IF checkError.failed THEN mock.initialized
                                ELSE TRUE)
  /\ UNCHANGED <<mbuf, shouldError>>

\* MockDisplay.Clear
MockClear ==
  /\ Called("Clear", checkError, mock.initialized)
  /\ mbuf' = IF checkError.failed THEN mbuf ELSE [i \in DOMAIN mbuf |-> 0]
  /\ UNCHANGED shouldError

\* MockDisplay.DrawText, DrawLine, DrawPixel, DrawRect, DrawImage: the
\* error is returned before anything is drawn
MockDrawCall ==
  \E a \in MockDrawArgs :
    /\ Called(a.name, checkError, mock.initialized)
    /\ mbuf' = IF checkError.failed THEN mbuf
               ELSE ApplyMock([buf |-> mbuf, panic |-> FALSE],
                              MockWrites(a)).buf
    /\ UNCHANGED shouldError

\* MockDisplay.Show
MockShow ==
  /\ Called("Show", checkError, mock.initialized)
  /\ UNCHANGED <<mbuf, shouldError>>

\* MockDisplay.Close
MockClose ==
  /\ Called("Close", checkError, IF checkError.failed THEN mock.initialized
                                 ELSE FALSE)
  /\ UNCHANGED <<mbuf, shouldError>>

\* MockDisplay.SetBrightness
MockSetBrightness ==
  /\ Called("SetBrightness", checkError, mock.initialized)
  /\ UNCHANGED <<mbuf, shouldError>>

\* MockDisplay.GetBounds: no error result, checkError is not consulted
MockGetBounds ==
  /\ Called("GetBounds", NoError, mock.initialized)
  /\ UNCHANGED <<mbuf, shouldError>>

\* MockDisplay.GetBuffer: a copy of the buffer, no error result
MockGetBuffer ==
  /\ Called("GetBuffer", NoError, mock.initialized)
  /\ UNCHANGED <<mbuf, shouldError>>

NextMock ==
  \/ MockSetError
  \/ MockInit
  \/ MockClear
  \/ MockDrawCall
  \/ MockShow
  \/ MockClose
  \/ MockSetBrightness
  \/ MockGetBounds
  \/ MockGetBuffer

SpecMock == InitMock /\ [][NextMock]_vars

\* =================================================================
\* Renderer.RenderPage called with any index, next to BuildPages
\* =================================================================

\* the range check of RenderPage
InvalidIndex_Never(pageIdx) == FALSE

InvalidIndex(pageIdx) == pageIdx < 0 \/ pageIdx >= Len(pages)

\* the indexes RenderPage is called with: from one below the first page to
\* beyond the longest list
PageIndexes == (-1)..MaxPageCount

InitRender ==
  /\ SchedNone
  /\ DrvNone
  /\ BuildNone
  /\ DrawNone

\* what RenderPage and BuildPages leave alone
RenderFrame ==
  <<mainPc, height, currentPage, lastInterfaceCount, rstats, rchanged,
    loopPc, tickers, rotationTick, refreshTick, chanVars, stopVars, ssVars,
    startResult, loopPanicked, loopLog, clients, metricsVars, drvVars,
    buildVars, geom, mbuf, gray, nrgba, drawOp, drawPanic, saver, libVars>>

\* Renderer.BuildPages(s): the list is replaced under the write lock
BuildPagesCall ==
  /\ \E s \in Stats : pages' = BuildPages(height, s)
  /\ UNCHANGED <<rpc, ridx, rerr, rpage, mock, shouldError, processPanic,
                 RenderFrame>>

\* RenderPage(pageIdx, s), the section under the read lock: an index
\* outside the list returns nil, any other fetches the page; indexing
\* outside the slice would panic
RenderPageCall(t) ==
  /\ rpc[t] = "idle"
  /\ mock.calls + Cardinality({u \in RefreshTasks : rpc[u] = "rendering"})
       < MaxCalls
  /\ \E pageIdx \in PageIndexes :
       /\ ridx' = [ridx EXCEPT ![t] = pageIdx]
       /\ IF InvalidIndex(pageIdx)
          THEN /\ rpc' = [rpc EXCEPT ![t] = "returned"]
               /\ rerr' = [rerr EXCEPT ![t] = FALSE]
               /\ UNCHANGED <<rpage, processPanic>>
          ELSE IF pageIdx + 1 \in DOMAIN pages
          THEN /\ rpc' = [rpc EXCEPT ![t] = "rendering"]
               /\ rpage' = [rpage EXCEPT ![t] = pages[pageIdx + 1]]
               /\ UNCHANGED <<rerr, processPanic>>
          ELSE /\ rpc' = [rpc EXCEPT ![t] = "panicked"]
               /\ processPanic' = t
               /\ UNCHANGED <<rerr, rpage>>
  /\ UNCHANGED <<pages, mock, shouldError, RenderFrame>>

\* page.Render(r.display, s), outside the lock, on the page that was
\* fetched: Display Contract calls, then nil or an error
PageRender(t) ==
  /\ rpc[t] = "rendering"
  /\ \E e \in BOOLEAN : rerr' = [rerr EXCEPT ![t] = e]
  /\ mock' = [mock EXCEPT !.calls = @ + 1, !.steps = @ + 1, !.last = "Show"]
  /\ rpc' = [rpc EXCEPT ![t] = "returned"]
  /\ rpage' = [rpage EXCEPT ![t] = NoPage]
  /\ UNCHANGED <<pages, ridx, shouldError, processPanic, RenderFrame>>

\* the caller has the result and may call again
RenderPageReturn(t) ==
  /\ rpc[t] = "returned"
  /\ rpc' = [rpc EXCEPT ![t] = "idle"]
  /\ ridx' = [ridx EXCEPT ![t] = 0]
  /\ rerr' = [rerr EXCEPT ![t] = FALSE]
  /\ UNCHANGED <<pages, rpage, mock, shouldError, processPanic, RenderFrame>>

NextRender ==
  \/ BuildPagesCall
  \/ \E t \in RefreshTasks : RenderPageCall(t)
  \/ \E t \in RefreshTasks : PageRender(t)
  \/ \E t \in RefreshTasks : RenderPageReturn(t)

\* two callers of RenderPage and a page list that is rebuilt under them
SpecRender == InitRender /\ [][NextRender]_vars

\* ---------------------------------------------------- construction claims
\* C21: NewST7735Display returns either a complete driver with the port
\* open, or nil with an error; when the failing step comes after the port
\* was opened the port has been closed, and no driver is visible before the
\* last step has succeeded.
C21_ST7735AllOrNothing ==
  ctor = "st7735" =>
    /\ buildPc \notin {"built", "running"} => disp = NoDriver
    /\ disp.family = "st7735" =>
         /\ disp.done = ST7735Complete
         /\ buildErr = "none"
    /\ buildPc = "built" =>
         IF buildErr = "none"
         THEN /\ port = "open"
              /\ disp = [family |-> "st7735", width |-> cfg.width,
                         height |-> cfg.height, rotation |-> cfg.rotation,
                         done |-> ST7735Complete]
         ELSE /\ disp = NoDriver
              /\ port = IF buildErr \in {"hostInit", "open"} THEN "none"
                        ELSE "closed"

\* C21 witness: the last step, applyRotation, failed on its bus write
C21_Witness ==
  /\ ctor = "st7735"
  /\ buildPc = "built"
  /\ buildErr = "madctl"
  /\ port = "closed"
  /\ disp = NoDriver

\* C22: NewSSD1306Display called with a rotation other than 0 and 2 returns
\* an error and no driver, and a driver it returns has rotation 0 or 2.
C22_SSD1306RotationRejected ==
  ctor = "ssd1306" =>
    /\ disp.family = "ssd1306" => disp.rotation \in {0, 2}
    /\ (buildPc = "built" /\ cfg.rotation \notin {0, 2}) =>
         /\ disp = NoDriver
         /\ buildErr \in {"hostInit", "open", "ssd1306Rotation"}

\* C22 witness: construction with rotation 3 stopped at the rotation check
C22_Witness ==
  /\ ctor = "ssd1306"
  /\ buildPc = "built"
  /\ cfg.rotation = 3
  /\ buildErr = "ssd1306Rotation"
  /\ disp = NoDriver

\* C23 as stated: a configuration Validate accepted has the dimensions of its
\* display type, and the constructor NewDisplay delegates to does not fail
\* on the dimensions or the rotation.
C23_ValidatedConfigConstructs ==
  validated =>
    /\ GetDisplaySpec(cfg.type).ok
    /\ cfg.width = GetDisplaySpec(cfg.type).width
    /\ cfg.height = GetDisplaySpec(cfg.type).height
    /\ buildErr \notin {"ssd1306Rotation", "st7735Rotation"}

C30_ReloadWarnsNeverReinitialises ==
  [][buildPc = "running" =>
       /\ disp' = disp
       /\ mgrCfg' = mgrCfg
       /\ port' = port
       /\ (cfg' # cfg) = (reloadLog' = "restartRequired")]_vars

\* C30 witness: main runs the mono-OLED driver it built at start while the
\* reloaded configuration names the 160x80 colour panel
C30_Witness ==
  /\ buildPc = "running"
  /\ reloadLog = "restartRequired"
  /\ disp.family = "ssd1306"
  /\ HasPrefix(cfg.type, str_st7735)
  /\ mgrCfg # cfg


\* =================================================================
\* the screen saver: its periodic check, ResetActivity and UpdateConfig
\* =================================================================
IdleTimeout == 2               \* Config.IdleTimeout, in steps of the clock
MaxTime == 3                   \* the clock stops here
MaxUpdates == 2                \* most UpdateConfig calls

SaverTasks == {"check", "reset", "update"}
Modes == {"off", "dim", "blank"}

\* what the rest of the program does not see of these calls
SaverFrame ==
  <<mainPc, height, mgrVars, chanVars, stopVars, ssStopClosed, obsVars,
    metricsVars, drvVars, buildVars, geom, mbuf, gray, nrgba, drawOp,
    drawPanic, mock, rpage, libVars>>

InitSaver ==
  /\ Init
  /\ mainPc = "ssStart"
  /\ height = StandardDisplayHeight
  /\ pages = <<>>
  /\ clients = {}
  /\ ~metricsCollector

\* no call of the screen saver is in progress
SaverQuiet == \A t \in SaverTasks : saver.pc[t] = "idle"

\* time passes between the calls
Clock ==
  /\ SaverQuiet
  /\ saver.now < MaxTime
  /\ saver' = [saver EXCEPT !.now = @ + 1, !.ended = "none"]
  /\ UNCHANGED <<ssEnabled, ssMode, ssPc, ssTick, ssActive, ssOp, SaverFrame>>

\* the call of task t returns; UpdateConfig's deferred Unlock runs, and the
\* goroutine is back in its select
Finish(sv, t) ==
  /\ saver' = [sv EXCEPT !.pc[t] = "idle",
                         !.ended = t,
                         !.mu = IF t = "update" THEN "free" ELSE @]
  /\ ssPc' = IF t = "check" THEN "select" ELSE ssPc
  /\ ssOp' = IF t = "check" THEN "none" ELSE ssOp

\* what a step that does not end a call leaves in saver
Going(sv) == saver' = [sv EXCEPT !.ended = "none"]

\* check(), the section under s.mu: with no active-hours window the
\* decision compares time.Now() - lastActive with IdleTimeout
check ==
  /\ Alive
  /\ ssPc = "select"
  /\ ssTick
  /\ saver.mu = "free"
  /\ ssTick' = FALSE
  /\ LET idle == saver.now - saver.lastActive
         shouldActivate == idle >= IdleTimeout /\ ~ssActive
         shouldDeactivate == idle < IdleTimeout /\ ssActive
     IN IF shouldActivate
        THEN /\ ssPc' = "calling"
             /\ ssOp' = "activate"
             /\ Going([saver EXCEPT !.pc["check"] = "activate"])
        ELSE IF shouldDeactivate
        THEN /\ ssPc' = "calling"
             /\ ssOp' = "deactivate"
             /\ Going([saver EXCEPT !.pc["check"] = "deactivate"])
        ELSE Finish(saver, "check")
  /\ UNCHANGED <<ssEnabled, ssMode, ssActive, SaverFrame>>

\* activate(), up to the return of SetBrightness: s.cfg.Mode is read
\* without the lock; mode off makes no call
activate(t) ==
  /\ saver.pc[t] = "activate"
  /\ \E ok \in BOOLEAN :
       IF ssMode \in {"dim", "blank"}
       THEN IF ok
            THEN /\ Going([saver EXCEPT !.pc[t] = "setActive",
                                        !.level = ssMode])
                 /\ UNCHANGED <<ssPc, ssOp>>
            ELSE Finish([saver EXCEPT !.failed = TRUE], t)
       ELSE /\ Going([saver EXCEPT !.pc[t] = "setActive"])
            /\ UNCHANGED <<ssPc, ssOp>>
  /\ UNCHANGED <<ssEnabled, ssMode, ssTick, ssActive, SaverFrame>>

\* deactivate(), up to the return of SetBrightness(NormalBrightness)
deactivate(t) ==
  /\ saver.pc[t] = "deactivate"
  /\ \E ok \in BOOLEAN :
       IF ok
       THEN /\ Going([saver EXCEPT !.pc[t] = "clearActive",
                                   !.level = "normal"])
            /\ UNCHANGED <<ssPc, ssOp>>
       ELSE Finish([saver EXCEPT !.failed = TRUE], t)
  /\ UNCHANGED <<ssEnabled, ssMode, ssTick, ssActive, SaverFrame>>

\* s.mu.Lock(); s.isActive = ...; s.mu.Unlock() at the end of activate and
\* deactivate: the lock must be free, whoever holds it
setIsActive(t) ==
  /\ saver.pc[t] \in {"setActive", "clearActive"}
  /\ saver.mu = "free"
  /\ ssActive' = (saver.pc[t] = "setActive")
  /\ Finish(saver, t)
  /\ UNCHANGED <<ssEnabled, ssMode, ssTick, SaverFrame>>

\* ResetActivity(): nothing when disabled; lastActive is set under the
\* lock, and deactivate follows if the screen saver was active
ResetActivity ==
  /\ saver.pc["reset"] = "idle"
  /\ saver.resets < MaxUpdates
  /\ IF ~ssEnabled
     THEN Finish([saver EXCEPT !.resets = @ + 1], "reset")
     ELSE /\ saver.mu = "free"
          /\ LET sv == [saver EXCEPT !.lastActive = saver.now,
                                     !.resets = @ + 1]
             IN IF ssActive
                THEN Going([sv EXCEPT !.pc["reset"] = "deactivate"])
                ELSE Finish(sv, "reset")
  /\ UNCHANGED <<ssEnabled, ssMode, ssPc, ssTick, ssActive, ssOp, SaverFrame>>

\* UpdateConfig(cfg): s.cfg is replaced under the lock; when the screen
\* saver is being disabled while active, deactivate is called with the
\* lock still held
UpdateConfig ==
  /\ saver.pc["update"] = "idle"
  /\ saver.updates < MaxUpdates
  /\ saver.mu = "free"
  /\ \E enabled \in BOOLEAN, mode \in Modes :
       LET oldEnabled == ssEnabled
           sv == [saver EXCEPT !.updates = @ + 1]
       IN /\ ssEnabled' = enabled
          /\ ssMode' = mode
          /\ IF ~oldEnabled /\ enabled
             THEN /\ ssActive' = FALSE
                  /\ Finish([sv EXCEPT !.lastActive = saver.now], "update")
             ELSE IF oldEnabled /\ ~enabled /\ ssActive
             THEN /\ Going([sv EXCEPT !.pc["update"] = "deactivate",
                                      !.mu = "update"])
                  /\ UNCHANGED <<ssActive, ssPc, ssOp>>
             ELSE /\ Finish(sv, "update")
                  /\ UNCHANGED ssActive
  /\ UNCHANGED <<ssTick, SaverFrame>>

NextSaver ==
  \/ SsStart
  \/ SsTicker
  \/ Clock
  \/ check
  \/ \E t \in SaverTasks : activate(t)
  \/ \E t \in SaverTasks : deactivate(t)
  \/ \E t \in SaverTasks : setIsActive(t)
  \/ ResetActivity
  \/ UpdateConfig

\* one screen saver with its goroutine, a caller of ResetActivity and main
\* calling UpdateConfig
SpecSaver == InitSaver /\ [][NextSaver]_vars

\* every call that can take a step takes it
SaverFairness ==
  /\ WF_vars(\E t \in SaverTasks : activate(t))
  /\ WF_vars(\E t \in SaverTasks : deactivate(t))
  /\ WF_vars(\E t \in SaverTasks : setIsActive(t))

SpecSaverLive == SpecSaver /\ SaverFairness

\* =================================================================
\* retry.Do and retry.DoWithResult: one call, its attempts, the backoff
\* wait and the cancellation of its context
\* =================================================================
MaxRetryAttempts == 3          \* largest Config.MaxAttempts
MaxDelay == 3                  \* Config.MaxDelay, in steps
Multiplier == 2                \* Config.Multiplier

\* an error value of Do: what it is and the error it wraps
Ret(kind, wraps) == [kind |-> kind, wraps |-> wraps]

\* what the rest of the program does not see of the call
RetryFrame ==
  <<schedVars, drvVars, buildVars, drawVars, health>>

\* Do(ctx, cfg, op) or DoWithResult(ctx, cfg, op) has been called: lastErr is
\* nil, delay is cfg.InitialDelay, attempt is 1
InitRetry ==
  /\ SchedNone
  /\ DrvNone
  /\ BuildNone
  /\ geom = [w |-> 0, h |-> 0]
  /\ mbuf = <<>>
  /\ gray = {}
  /\ nrgba = {}
  /\ drawOp = NoDraw
  /\ drawPanic = FALSE
  /\ mock = NoMock
  /\ rpage = [t \in RefreshTasks |-> NoPage]
  /\ saver = NoSaver
  /\ health = NoHealth
  /\ \E f \in {"Do", "DoWithResult"}, m \in -1..MaxRetryAttempts,
        d \in 1..2 :
       retry = [NoRetry EXCEPT !.pc = "loop", !.fn = f, !.MaxAttempts = m,
                               !.delay = d, !.attempt = 1]

\* cancel() of the context, from any goroutine, while the call runs
CtxCancel ==
  /\ retry.pc \in {"loop", "backoff"}
  /\ ~retry.cancelled
  /\ retry' = [retry EXCEPT !.cancelled = TRUE, !.last = "cancel"]
  /\ UNCHANGED RetryFrame

\* one turn of the loop with attempt <= cfg.MaxAttempts  --  the mutant
\* tests attempt > cfg.MaxAttempts before it gives up
DoAttempt_OffByOne ==
  /\ retry.pc = "loop"
  /\ retry.attempt <= retry.MaxAttempts
  /\ \E err \in {"nil", "e1", "e2"} :
       LET r == [retry EXCEPT !.calls = @ + 1, !.last = "attempt"]
       IN retry' =
            IF err = "nil"
            THEN [r EXCEPT !.successes = @ + 1,
                           !.pc = "returned",
                           !.ret = Ret("nil", "nil"),
                           !.result = IF retry.fn = "DoWithResult"
                                      THEN 42 ELSE 0]
            ELSE IF retry.attempt > retry.MaxAttempts
            THEN [r EXCEPT !.lastErr = err,
                           !.pc = "returned",
                           !.ret = Ret("failedAfter", err)]
            ELSE IF retry.cancelled
            THEN [r EXCEPT !.lastErr = err,
                           !.pc = "returned",
                           !.ret = Ret("cancelled", "ctx")]
            ELSE [r EXCEPT !.lastErr = err, !.pc = "backoff"]
  /\ UNCHANGED RetryFrame

\* one turn of the loop with attempt <= cfg.MaxAttempts: op is invoked; nil
\* returns nil (and the result); an error is kept in lastErr and returned
\* wrapped when this was the last attempt, the cancellation is returned when
\* ctx is done, and the backoff wait starts otherwise
DoAttempt ==
  /\ retry.pc = "loop"
  /\ retry.attempt <= retry.MaxAttempts
  /\ \E err \in {"nil", "e1", "e2"} :
       LET r == [retry EXCEPT !.calls = @ + 1, !.last = "attempt"]
       IN retry' =
            IF err = "nil"
            THEN [r EXCEPT !.successes = @ + 1,
                           !.pc = "returned",
                           !.ret = Ret("nil", "nil"),
                           !.result = IF retry.fn = "DoWithResult"
                                      THEN 42 ELSE 0]
            ELSE IF retry.attempt >= retry.MaxAttempts
            THEN [r EXCEPT !.lastErr = err,
                           !.pc = "returned",
                           !.ret = Ret("failedAfter", err)]
            ELSE IF retry.cancelled
            THEN [r EXCEPT !.lastErr = err,
                           !.pc = "returned",
                           !.ret = Ret("cancelled", "ctx")]
            ELSE [r EXCEPT !.lastErr = err, !.pc = "backoff"]
  /\ UNCHANGED RetryFrame

\* the backoff select, woken by the timer: the delay grows by Multiplier up
\* to MaxDelay, and the loop goes round with attempt + 1
DoBackoffElapsed ==
  /\ retry.pc = "backoff"
  /\ ~retry.cancelled
  /\ retry' = [retry EXCEPT
                 !.delay = IF @ * Multiplier > MaxDelay THEN MaxDelay
                           ELSE @ * Multiplier,
                 !.attempt = @ + 1,
                 !.pc = "loop",
                 !.last = "timer"]
  /\ UNCHANGED RetryFrame

\* the backoff select, woken by ctx.Done()  --  the mutant goes round the
\* loop instead of returning
DoBackoffCancelled_Retries ==
  /\ retry.pc = "backoff"
  /\ retry.cancelled
  /\ retry' = [retry EXCEPT !.attempt = @ + 1,
                            !.pc = "loop",
                            !.last = "done"]
  /\ UNCHANGED RetryFrame

DoBackoffCancelled ==
  /\ retry.pc = "backoff"
  /\ retry.cancelled
  /\ retry' = [retry EXCEPT !.pc = "returned",
                            !.ret = Ret("cancelledDuringBackoff", "ctx"),
                            !.last = "done"]
  /\ UNCHANGED RetryFrame

\* the loop condition attempt <= cfg.MaxAttempts is false: return lastErr
DoLoopExit ==
  /\ retry.pc = "loop"
  /\ retry.attempt > retry.MaxAttempts
  /\ retry' = [retry EXCEPT
                 !.pc = "returned",
                 !.ret = IF retry.lastErr = "nil" THEN Ret("nil", "nil")
                         ELSE Ret("plain", retry.lastErr),
                 !.last = "exit"]
  /\ UNCHANGED RetryFrame

NextRetry ==
  \/ CtxCancel
  \/ DoAttempt
  \/ DoBackoffElapsed
  \/ DoBackoffCancelled
  \/ DoLoopExit

SpecRetry == InitRetry /\ [][NextRetry]_vars

\* =================================================================
\* the health Checker: components, their error counts and statuses
\* =================================================================
MaxErrors == 11                \* RecordError stops at this ErrorCount
MaxSuccesses == 3              \* RecordSuccess stops at this SuccessCount
DegradedErrors == 3            \* ErrorCount >= 3: degraded
UnhealthyErrors == 10          \* ErrorCount >= 10: unhealthy

ComponentNames == {"display", "network"}

\* a name that was not registered, and the Component RegisterComponent
\* stores
NoComponent == [exists |-> FALSE, Status |-> "healthy", Message |-> "",
                ErrorCount |-> 0, SuccessCount |-> 0]
NewComponent == [NoComponent EXCEPT !.exists = TRUE]

\* the order of the statuses
Severity(s) ==
  CASE s = "healthy" -> 0
    [] s = "degraded" -> 1
    [] s = "unhealthy" -> 2

HealthFrame ==
  <<schedVars, drvVars, buildVars, drawVars, retry>>

\* New(): no component
InitHealth ==
  /\ SchedNone
  /\ DrvNone
  /\ BuildNone
  /\ geom = [w |-> 0, h |-> 0]
  /\ mbuf = <<>>
  /\ gray = {}
  /\ nrgba = {}
  /\ drawOp = NoDraw
  /\ drawPanic = FALSE
  /\ mock = NoMock
  /\ rpage = [t \in RefreshTasks |-> NoPage]
  /\ saver = NoSaver
  /\ retry = NoRetry
  /\ health = [NoHealth EXCEPT
                 !.components = [n \in ComponentNames |-> NoComponent],
                 !.last = "New"]

\* health after a method call on name n: last, name and was keep the
\* method, the name and the status the component had before
Recorded(op, n, comps) ==
  health' = [components |-> comps, last |-> op, name |-> n,
             was |-> health.components[n].Status]

RegisterComponent(n) ==
  /\ Recorded("RegisterComponent", n,
              [health.components EXCEPT ![n] = NewComponent])
  /\ UNCHANGED HealthFrame

RecordSuccess(n) ==
  LET comp == health.components[n]
      count == IF comp.ErrorCount > 0 THEN comp.ErrorCount - 1
               ELSE comp.ErrorCount
  IN /\ comp.SuccessCount < MaxSuccesses
     /\ Recorded("RecordSuccess", n,
          IF comp.exists
          THEN [health.components EXCEPT ![n] =
                  [comp EXCEPT
                     !.SuccessCount = @ + 1,
                     !.ErrorCount = count,
                     !.Status = IF count = 0 THEN "healthy" ELSE @,
                     !.Message = IF count = 0 THEN "" ELSE @]]
          ELSE health.components)
     /\ UNCHANGED HealthFrame

RecordError(n) ==
  LET comp == health.components[n]
      count == comp.ErrorCount + 1
  IN /\ comp.ErrorCount < MaxErrors
     /\ Recorded("RecordError", n,
          IF comp.exists
          THEN [health.components EXCEPT ![n] =
                  [comp EXCEPT
                     !.ErrorCount = count,
                     !.Message = "error",
                     !.Status = IF count >= UnhealthyErrors
                                THEN "unhealthy"
                                ELSE IF count >= DegradedErrors
                                THEN "degraded" ELSE @]]
          ELSE health.components)
     /\ UNCHANGED HealthFrame

NextHealth ==
  \/ \E n \in ComponentNames : RegisterComponent(n)
  \/ \E n \in ComponentNames : RecordSuccess(n)
  \/ \E n \in ComponentNames : RecordError(n)

SpecHealth == InitHealth /\ [][NextHealth]_vars

\* ---------------------------------------------------------- drawing claims

\* the pixels of the three framebuffers that a step changed
MockChanged ==
  {p \in Points : getPixel(mbuf', p[1], p[2]) # getPixel(mbuf, p[1], p[2])}
GrayChanged == (gray' \ gray) \cup (gray \ gray')
NRGBAChanged == {p \in DOMAIN nrgba : nrgba'[p] # nrgba[p]}

\* the rectangle a DrawPixel, DrawLine, DrawRect or DrawImage call names
AskedArea(a) ==
  {p \in Points : /\ p[1] >= a.x /\ p[1] < a.x + a.w
                  /\ p[2] >= a.y /\ p[2] < a.y + a.h}

\* C25: on the Test Double, the mono-OLED driver and the colour drivers a
\* drawing call with coordinates outside the panel returns no error and
\* does not panic; no framebuffer changes size and nothing is lit outside
\* the panel; a DrawPixel outside the panel leaves every pixel as it was,
\* and a DrawLine, DrawRect or DrawImage changes only pixels of the
\* rectangle it was asked to draw that lie inside the panel.
C25_OutOfBoundsClipped ==
  [][/\ drawOp'.ret = "nil"
     /\ ~drawPanic'
     /\ DOMAIN mbuf' = DOMAIN mbuf
     /\ gray' \subseteq Points
     /\ DOMAIN nrgba' = Points
     /\ (drawOp'.name = "DrawPixel" /\ ~InRect(drawOp'.x, drawOp'.y))
          => (mbuf' = mbuf /\ gray' = gray /\ nrgba' = nrgba)
     /\ drawOp'.name \in {"DrawPixel", "DrawLine", "DrawRect", "DrawImage"}
          => (MockChanged \cup GrayChanged \cup NRGBAChanged)
               \subseteq AskedArea(drawOp')]_vars

\* a pixel one column right of the panel was drawn after something was lit
C25_Witness ==
  /\ drawOp.name = "DrawPixel"
  /\ drawOp.x = geom.w
  /\ drawOp.y = 0
  /\ drawOp.on
  /\ drawOp.n = MaxDraws
  /\ gray # {}
  /\ ~drawPanic

\* C26: after DrawPixel(x, y, v) at a coordinate inside the panel, on a
\* display of any width and height, GetPixel(x, y) of the Test Double
\* returns v and its buffer holds v in bit y%8 of byte x + (y/8)*width;
\* the mono-OLED framebuffer holds v at (x, y) and, on a panel the
\* mono-OLED driver is built for, so does its packed buffer.
C26_DrawPixelReadBack ==
  (drawOp.name = "DrawPixel" /\ InRect(drawOp.x, drawOp.y))
    => LET byteIdx == drawOp.x + (drawOp.y \div 8) * geom.w
           bitIdx == drawOp.y % 8
       IN /\ getPixel(mbuf, drawOp.x, drawOp.y) = drawOp.on
          /\ byteIdx \in DOMAIN mbuf
          /\ Bit(mbuf[byteIdx], bitIdx) = drawOp.on
          /\ (<<drawOp.x, drawOp.y>> \in gray) = drawOp.on
          /\ geom \in OLEDGeoms
               => /\ ~SSD1306GetBuffer.panic
                  /\ Bit(SSD1306GetBuffer.buf[byteIdx], bitIdx) = drawOp.on

\* C27 as stated: after any sequence of drawing operations, on a panel
\* the mono-OLED driver is built for, the Test Double has exactly the lit
\* pixels of the mono-OLED framebuffer.
C27_MockMatchesSSD1306 ==
  geom \in OLEDGeoms => MockLit = gray

\* C27 as the code has it: after any sequence of DrawPixel, DrawLine,
\* DrawRect, DrawImage and Clear calls, with coordinates and sizes inside,
\* across and outside the edges, on a panel the mono-OLED driver is built
\* for, the Test Double has exactly the lit pixels of the mono-OLED
\* framebuffer.
C27_MockMatchesSSD1306ExceptText ==
  (geom \in OLEDGeoms /\ drawOp.texts = 0) => MockLit = gray

\* two calls that cross an edge were drawn and pixels are lit
C27_Witness ==
  /\ geom \in OLEDGeoms
  /\ drawOp.texts = 0
  /\ drawOp.n = MaxDraws
  /\ drawOp.name = "DrawRect"
  /\ drawOp.x = -1
  /\ drawOp.w = 3
  /\ ~drawOp.on
  /\ Cardinality(gray) > 3
  /\ MockLit = gray

\* ----------------------------------------------------- fault-injection claim

\* C28 as stated: a Display Contract call made after SetError(true, msg)
\* fails with msg, and one made after SetError(false, ...) succeeds.
C28_EveryCallFailsUntilCleared ==
  mock.last \in FallibleCalls \cup ValueCalls
    => IF mock.armed.on
       THEN mock.ret.failed /\ mock.ret.msg = mock.armed.msg
       ELSE ~mock.ret.failed

\* C28 as the code has it: a call of a Display Contract method that
\* returns an error (Init, Clear, DrawText, DrawLine, DrawPixel, DrawRect,
\* DrawImage, Show, Close, SetBrightness) made after SetError(true, msg)
\* fails with msg, and one made after SetError(false, ...) or before any
\* SetError succeeds; GetBounds and GetBuffer have no error result and
\* answer whatever the switch says.
C28_FallibleCallsFailUntilCleared ==
  /\ mock.last \in FallibleCalls
       => IF mock.armed.on
          THEN mock.ret.failed /\ mock.ret.msg = mock.armed.msg
          ELSE ~mock.ret.failed
  /\ mock.last \in ValueCalls => ~mock.ret.failed

\* a call failed with the message of the switch, the switch was cleared
\* and the next call succeeded
C28_Witness ==
  /\ mock.last = "Clear"
  /\ ~mock.ret.failed
  /\ ~mock.armed.on
  /\ ~shouldError
  /\ mock.steps = MaxCalls
  /\ mock.calls = 2
  /\ mock.failures = 1
  /\ \E p \in Points : getPixel(mbuf, p[1], p[2]) = FALSE

\* ------------------------------------------------------- RenderPage claim

\* C29: a RenderPage call with an index below 0 or at or above PageCount()
\* returns at once with no error and without a Display Contract call, and
\* no RenderPage call panics on its index, whatever BuildPages does to the
\* list while a render is in progress.
C29_OutOfRangeRenderIsNoOp ==
  [][/\ \A t \in RefreshTasks :
          (/\ rpc[t] = "idle"
           /\ rpc'[t] # "idle"
           /\ (ridx'[t] < 0 \/ ridx'[t] >= PageCount))
            => /\ rpc'[t] = "returned"
               /\ ~rerr'[t]
               /\ mock' = mock
               /\ shouldError' = shouldError
     /\ processPanic' = "none"]_vars

\* a call with the index one past the list has returned before any page
\* was drawn, while the other caller renders a page the list has lost
C29_Witness ==
  /\ PageCount > 0
  /\ rpc["main"] = "returned"
  /\ ridx["main"] = PageCount
  /\ ~rerr["main"]
  /\ mock.calls = 0
  /\ rpc["loop"] = "rendering"
  /\ ridx["loop"] >= PageCount

\* ------------------------------------------------- screen-saver claims

\* C31: no SetBrightness call of the screen saver's periodic task is in
\* progress on the Display while a render of the scheduler (the initial
\* render of Start or a refresh of the control loop) is in progress on it.
C31_OneDisplayCallAtATime ==
  ~(SsInFlight /\ \E t \in RefreshTasks : SchedInFlight(t))

\* C32: every UpdateConfig call returns and with it releases s.mu.
C32_UpdateConfigReturns ==
  (saver.pc["update"] # "idle") ~> (saver.pc["update"] = "idle")

\* C34: while cfg.Enabled is false, also after UpdateConfig has disabled a
\* screen saver that was started enabled, the screen saver does not become
\* active and the display is not dimmed or blanked (a restore to normal
\* brightness is let pass).
C34_DisabledSaverStaysOff ==
  [][(~ssEnabled /\ ~ssEnabled')
       => /\ ssActive' => ssActive
          /\ saver'.level # saver.level => saver'.level = "normal"]_vars

\* C35: for a screen saver that is enabled and whose configuration was
\* never updated, with no active-hours window and no failed brightness
\* call, when a check or a ResetActivity call has just returned the screen
\* saver is active exactly when IdleTimeout or more has passed since
\* lastActive.
C35_ActiveIffIdle ==
  (saver.ended \in {"check", "reset"} /\ ssEnabled /\ ~saver.failed
   /\ saver.updates = 0)
    => (ssActive = (saver.now - saver.lastActive >= IdleTimeout))

\* C33: when a Show of the bridged driver that has put the bridge in burst
\* mode has returned, with nil or with an error, the bridge is not in burst
\* mode; the one return left out is the error of the burst-disable write
\* itself, after the last chunk.
C33_ShowLeavesBurstModeOff ==
  (/\ drv = "uctronics"
   /\ call.name = "Show"
   /\ result \in {"ok", "error"}
   /\ \E i \in DOMAIN bus :
        /\ bus[i].o.kind = "reg"
        /\ bus[i].o.val = <<uctronicsBurstWriteReg, 0, 1>>
   /\ ~(LastOp.kind = "pixels" /\ LastOp.to = call.len))
    => ~burstMode

\* C36: every accepted reload whose display configuration differs from the
\* one the running driver and Manager were created with logs the
\* restart-required warning, a repeated reload of the same file included.
C36_PendingRestartWarned ==
  [][(/\ buildPc = "running"
      /\ reloadLog' # "keptCurrent"
      /\ cfg' # mgrCfg)
       => reloadLog' = "restartRequired"]_vars

\* ------------------------------------------------------- retry claims
\* op has been invoked and has failed with ctx done
FailedWhileCancelled ==
  /\ retry.pc = "loop"
  /\ retry.cancelled
  /\ retry'.calls = retry.calls + 1
  /\ retry'.successes = retry.successes

\* C37: no invocation of op is beyond the MaxAttempts-th; when every
\* attempt has failed and ctx was not cancelled, Do has invoked op exactly
\* MaxAttempts times and returns the error that wraps the last failure; the
\* first nil of op ends the call, and op is not invoked again.
C37_AtMostMaxAttempts ==
  /\ [](retry.calls = 0 \/ retry.calls <= retry.MaxAttempts)
  /\ [](/\ retry.pc = "returned"
        /\ retry.calls >= 1
        /\ retry.successes = 0
        /\ ~retry.cancelled
        => /\ retry.calls = retry.MaxAttempts
           /\ retry.ret = Ret("failedAfter", retry.lastErr))
  /\ [](retry.successes >= 1 =>
          /\ retry.successes = 1
          /\ retry.pc = "returned"
          /\ retry.ret.kind = "nil")
  /\ [][retry.pc = "returned" => retry' = retry]_vars

\* C37 witness: three attempts of three have failed, the last with e2, ctx
\* was never cancelled and Do has returned
C37_Witness ==
  /\ retry.pc = "returned"
  /\ retry.MaxAttempts = 3
  /\ retry.calls = 3
  /\ retry.successes = 0
  /\ ~retry.cancelled
  /\ retry.lastErr = "e2"
  /\ retry.ret = Ret("failedAfter", "e2")

\* C38: an attempt that fails while ctx is done, and a backoff wait during
\* which ctx is done, end the call with a cancellation error, and op is not
\* invoked again.
C38_CancelledReturnsCancellation ==
  /\ [][FailedWhileCancelled =>
          /\ retry'.pc = "returned"
          /\ retry'.ret.kind = "cancelled"]_vars
  /\ [][(retry.pc = "backoff" /\ retry.cancelled) =>
          /\ retry'.pc = "returned"
          /\ retry'.ret.kind = "cancelledDuringBackoff"
          /\ retry'.calls = retry.calls]_vars
  /\ [][retry.pc = "returned" => retry'.calls = retry.calls]_vars

\* C38 as the code has it: an attempt before the MaxAttempts-th that fails
\* while ctx is done, and a backoff wait during which ctx is done, end the
\* call with a cancellation error; the MaxAttempts-th attempt that fails
\* ends it with the error of the exhausted attempts, ctx done or not; op is
\* not invoked again in either case.
C38_CancelledReturnsUnlessLastAttempt ==
  /\ [][FailedWhileCancelled =>
          /\ retry'.pc = "returned"
          /\ retry'.ret = IF retry.attempt < retry.MaxAttempts
                          THEN Ret("cancelled", "ctx")
                          ELSE Ret("failedAfter", retry'.lastErr)]_vars
  /\ [][(retry.pc = "backoff" /\ retry.cancelled) =>
          /\ retry'.pc = "returned"
          /\ retry'.ret = Ret("cancelledDuringBackoff", "ctx")
          /\ retry'.calls = retry.calls]_vars
  /\ [][retry.pc = "returned" => retry' = retry]_vars

\* C38 witness: ctx was cancelled during the backoff wait after the first
\* failure, and Do has returned the cancellation after that one attempt
C38_Witness ==
  /\ retry.pc = "returned"
  /\ retry.cancelled
  /\ retry.MaxAttempts = 3
  /\ retry.calls = 1
  /\ retry.ret = Ret("cancelledDuringBackoff", "ctx")

\* C39: Do and DoWithResult return nil only after an invocation of op that
\* returned nil.
C39_NilOnlyAfterSuccess ==
  (retry.pc = "returned" /\ retry.ret.kind = "nil") => retry.successes >= 1

\* ------------------------------------------------------ health claims
\* C40: after RecordError the status of the component is at least as severe
\* as it was before the call.
C40_ErrorNeverImproves ==
  health.last = "RecordError"
    => Severity(health.components[health.name].Status)
         >= Severity(health.was)

====
